---- MODULE Spec2Model ----
(***************************************************************************)
(* Model of the rusty-weather sensor node (firmware/src/bin/main.rs):      *)
(* the main thread, the two sampling tasks (task_bmp280, task_dht11), the  *)
(* BMP280 register driver on the shared, mutex-guarded I2C bus and the     *)
(* bit-banged DHT11 read with its interrupt-suppressed critical section.   *)
(***************************************************************************)
EXTENDS Integers, Sequences, FiniteSets, TLC

(***************************************************************************)
(* Program constants                                                       *)
(***************************************************************************)
MAX_ERROS == 5
\* number of register transactions of BMP280::new: chip id, calibration,
\* soft reset, ctrl_meas (0xF4), config (0xF5)
PASSOS_NEW == 5
\* polls of the status register in BMP280::ler_dados (for _ in 0..10)
MAX_POLLS == 10
\* timeout_us of every esperar_nivel call
TIMEOUT_US == 100
\* a high pulse longer than this decodes as bit 1
LIMIAR_BIT_US == 40
\* bytes of a DHT11 frame, bits of a byte
N_BYTES == 5
BITS_POR_BYTE == 8
CHIP_ID == 88
\* const INTERVALO_LEITURA_MINUTOS
INTERVALO_LEITURA_MINUTOS == 10

(***************************************************************************)
(* Bounds of the model                                                     *)
(***************************************************************************)
\* the pressure task's counter grows without limit while reconstruction
\* keeps failing; reads may fail only while it is below this cap
MaxContador == 6
\* entries of each log stream the model keeps: its first MaxLinhas
MaxLinhas == 3

Tasks == {"bmp", "dht"}
Outra(t) == IF t = "bmp" THEN "dht" ELSE "bmp"

\* positions of a task inside its `loop`
Running == {"ler_dados", "inicio1", "inicio2", "inicio3", "resp_baixo", "resp_alto",
            "bits", "reabilitar", "resultado", "checksum", "gravar", "erro",
            "renew", "dormir", "dormindo"}

VARIABLES
    mainPc,          \* position of main()
    pc,              \* position of each task
    contador_erros,  \* each task's contador_erros
    sensor,          \* each task's driver instance: "nenhum" or "pronto"
    \* ---- BMP280 / shared bus
    passo,           \* transaction index inside BMP280::new / ler_dados
    fase,            \* phase of the current register operation
    i2c_lock,        \* owner of the Mutex<I2cDriver> guard
    em_voo,          \* driver instances with a transaction on the wire
    buffer,          \* the bytes the last read_register put in its `buffer`
    novo,            \* the instance BMP280::new is constructing (its `sensor`)
    calibracao,      \* sensor.calibracao of the task's instance
    t_fine,          \* sensor.t_fine of the task's instance
    dados_bmp,       \* the DadosBMP280 BMP280::ler_dados returned, if any
    regs,            \* the registers of the physical BMP280
    \* ---- DHT11
    interrupcoes,    \* TRUE iff interrupts are enabled
    quadro,          \* the frame the sensor is sending
    nbits,           \* data bits decoded so far in this call
    byte,            \* ler_byte's accumulator
    dados,           \* the closure's [u8; 5]
    resultado,       \* the closure's result: "nenhum", "ok", "timeout"
    retorno,         \* what DHT11::ler_dados returned
    medida,          \* the DadosDHT11 it produced (in tenths), if any
    estouro,         \* a wait of this call took longer than TIMEOUT_US
    \* ---- observation of the current cycle (history variables)
    leitura,         \* result of the cycle's read
    gravacao,        \* result of the cycle's persistence write
    tentativas,      \* recovery actions triggered in the cycle
    ativa,           \* the task has started a read (and so a cycle)
    falhou_init,     \* the task's initial driver construction failed
    config,          \* the Config behind the Arc<Mutex<..>> both tasks share
    intervalo,       \* each task's `intervalo` (ms) while its thread::sleep runs
    arquivo,         \* the first MaxLinhas entries of each sensor's log stream
    \* the dashboard (a program of its own)
    history,         \* the Vec behind the SharedState
    trava,           \* who holds the Mutex of the SharedState
    pcMqtt,          \* position of the spawned MQTT loop
    novo_registro,   \* the Registro the loop has built, if any
    pcPagina,        \* position of handler_dashboard
    visto,           \* the records the handler's last run iterated over
    aceitas,         \* every payload parsed so far, in arrival order
    \* ---- a function of the program applied on its own
    entrada,         \* the values it is applied to
    saida            \* what it returned

vars == <<mainPc, pc, contador_erros, sensor, passo, fase, i2c_lock, em_voo,
          buffer, novo, calibracao, t_fine, dados_bmp, regs,
          interrupcoes, quadro, nbits, byte, dados, resultado, retorno,
          medida, estouro, leitura, gravacao, tentativas, ativa, falhou_init,
          config, intervalo, arquivo, entrada, saida,
          history, trava, pcMqtt, novo_registro, pcPagina, visto, aceitas>>

\* the fields of a BMP280 value: the one under construction, the task's
instVars == <<novo, calibracao, t_fine>>
bmpVars == <<passo, fase, i2c_lock, em_voo, buffer, instVars, dados_bmp>>
dhtVars == <<interrupcoes, quadro, nbits, byte, dados, resultado, retorno,
            medida, estouro>>
obsVars == <<leitura, gravacao, tentativas, ativa, falhou_init>>
\* what no step of main() or of the tasks changes
painelVars == <<history, trava, pcMqtt, novo_registro, pcPagina, visto, aceitas>>
fixoVars == <<regs, config, entrada, saida, painelVars>>

(***************************************************************************)
(* Environment: what the hardware may answer                               *)
(***************************************************************************)
\* frames the DHT11 may put on the wire: valid, valid with a wrapping sum,
\* and one with a wrong checksum byte
Quadros == { <<45, 0, 23, 5, 73>>, <<200, 100, 50, 10, 104>>, <<45, 0, 23, 5, 74>> }
\* time (us) until the line reaches the awaited level: at the bound, beyond it
Esperas == {100, 101}
\* length (us) of the high pulse the sensor sends for a bit, or a stuck line
Pulsos == {26, 40, 41, 70, 101}
PulsoDoBit(b) == IF b = 1 THEN {41, 70, 101} ELSE {26, 40, 101}

\* bit n (0-based, in arrival order) of frame q: most significant bit first
BitDoQuadro(q, n) ==
    (q[(n \div BITS_POR_BYTE) + 1] \div (2 ^ (BITS_POR_BYTE - 1 - (n % BITS_POR_BYTE)))) % 2

Zeros == [i \in 1..N_BYTES |-> 0]

\* register files of a physical BMP280: the chip identity at 0xD0, the 24
\* calibration bytes at 0x88 and the 6 data bytes at 0xF7.  CalibA and BrutoA
\* are the worked example of the data sheet (25.08 C), BrutoB is a colder
\* sample and BrutoFrio the sample of 0.00 C, at which t_fine is 0; CalibB is
\* another part, which answers the identity of a BME280
CalibA == <<112, 107, 67, 103, 24, 252, 125, 142, 67, 214, 208, 11,
            39, 11, 140, 0, 249, 255, 140, 60, 248, 198, 112, 23>>
CalibB == <<96, 109, 144, 101, 206, 255, 0, 0, 240, 216, 184, 11,
            240, 10, 100, 0, 249, 255, 152, 58, 80, 201, 112, 23>>
BrutoA == <<101, 90, 192, 126, 237, 0>>
BrutoB == <<97, 168, 7, 122, 18, 9>>
BrutoFrio == <<101, 90, 192, 107, 112, 0>>
\* the part the whole system is explored with: its t_fine never leaves 0,
\* which keeps the tasks' control states from being multiplied by it
RegsPadrao == [id |-> CHIP_ID, calib |-> CalibA, bruto |-> BrutoFrio]
\* the parts the pressure task is explored with on its own
Sensores == { [id |-> CHIP_ID, calib |-> CalibA, bruto |-> BrutoA],
              [id |-> CHIP_ID, calib |-> CalibA, bruto |-> BrutoB],
              [id |-> 96, calib |-> CalibB, bruto |-> BrutoA] }
\* values of the status register 0xF3: idle, or measuring (bit 3)
Estados == {0, 8}

(***************************************************************************)
(* BMP280: the pure parts of the driver                                    *)
(***************************************************************************)
\* u16::from_le_bytes([lo, hi]) and i16::from_le_bytes([lo, hi])
FromLeU16(lo, hi) == lo + 256 * hi
LeSemSinal(lo, hi) == lo + 256 * hi
FromLeI16(lo, hi) == IF lo + 256 * hi >= 32768 THEN lo + 256 * hi - 65536 ELSE lo + 256 * hi

\* ler_calibracao: the twelve coefficients of the block calib (calib[i] of
\* the code is calib[i + 1] here)
DecodificarCalibracao(calib) ==
    [dig_t1 |-> FromLeU16(calib[1], calib[2]),
     dig_t2 |-> FromLeI16(calib[3], calib[4]),
     dig_t3 |-> FromLeI16(calib[5], calib[6]),
     dig_p1 |-> FromLeU16(calib[7], calib[8]),
     dig_p2 |-> FromLeI16(calib[9], calib[10]),
     dig_p3 |-> FromLeI16(calib[11], calib[12]),
     dig_p4 |-> FromLeI16(calib[13], calib[14]),
     dig_p5 |-> FromLeI16(calib[15], calib[16]),
     dig_p6 |-> FromLeI16(calib[17], calib[18]),
     dig_p7 |-> FromLeI16(calib[19], calib[20]),
     dig_p8 |-> FromLeI16(calib[21], calib[22]),
     dig_p9 |-> FromLeI16(calib[23], calib[24])]

\* the coefficients BMP280::new starts from
CalibracaoZero ==
    [dig_t1 |-> 0, dig_t2 |-> 0, dig_t3 |-> 0, dig_p1 |-> 0, dig_p2 |-> 0, dig_p3 |-> 0,
     dig_p4 |-> 0, dig_p5 |-> 0, dig_p6 |-> 0, dig_p7 |-> 0, dig_p8 |-> 0, dig_p9 |-> 0]

\* let mut sensor = Self { i2c, addr, calibracao: {0, ..}, t_fine: 0 }
InstanciaHerdada == [calibracao |-> calibracao, t_fine |-> t_fine]
InstanciaNova == [calibracao |-> CalibracaoZero, t_fine |-> 0]

\* (status[0] & 0x08) != 0
MedindoNoBit2(status) == (status \div 4) % 2 = 1
Medindo(status) == (status \div 8) % 2 = 1

\* adc_p and adc_t of the burst read: the three fields of each occupy
\* disjoint bits, so `|` adds them
AdcP(b) == b[1] * 4096 + b[2] * 16 + (b[3] \div 16)
AdcT(b) == b[4] * 4096 + b[5] * 16 + (b[6] \div 16)

\* compensar_temperatura: the t_fine it stores and the temperature it
\* returns, in hundredths of a degree (t as f32 / 100.0); >> is the
\* arithmetic shift, the division rounding down
CompensarTemperatura(cal, adc_t) ==
    LET var1 == (((adc_t \div 8) - (cal.dig_t1 * 2)) * cal.dig_t2) \div 2048
        var2 == (((((adc_t \div 16) - cal.dig_t1) * ((adc_t \div 16) - cal.dig_t1)) \div 4096)
                    * cal.dig_t3) \div 16384
    IN [t_fine |-> var1 + var2, t |-> (((var1 + var2) * 5 + 128) \div 256)]

\* the self.t_fine compensar_pressao reads: ler_dados calls it after
\* compensar_temperatura has stored the new one
TFineAnterior(antes, depois) == antes
TFineLido(antes, depois) == depois

\* ler_dados after the burst read, on the instance's fields: the new t_fine
\* and the reading.  pressao is the call compensar_pressao(adc_p), kept as
\* the t_fine it reads and its argument; the altitude follows from it
LerDados(cal, tf, b) ==
    LET ct == CompensarTemperatura(cal, AdcT(b))
    IN [t_fine |-> ct.t_fine,
        dados |-> [temperatura |-> ct.t,
                   pressao |-> [t_fine |-> TFineLido(tf, ct.t_fine), adc_p |-> AdcP(b)]]]

(***************************************************************************)
(* Initial state: main() is about to spawn the two threads                 *)
(***************************************************************************)
\* gravar_bmp280 / gravar_dht11: the stream each opens (ARQUIVO_BMP280,
\* ARQUIVO_DHT11), and what the call leaves at its end: the whole line when
\* it returns Ok; nothing (open failed) or some first bytes of the line,
\* without its "\n" (write_all failed), when it returns Err
ArquivoDaOutra(t) == Outra(t)
ArquivoDe(t) == t
Linha(t) == [de |-> t, completa |-> TRUE]
Fragmento(t) == [de |-> t, completa |-> FALSE]
Escrito(t, r, parcial) ==
    IF r = "ok" THEN <<Linha(t)>> ELSE IF parcial THEN <<Fragmento(t)>> ELSE <<>>
\* OpenOptions::new().create(true).append(true): every write goes to the end
Truncar(f, e) == IF Len(e) = 0 THEN f ELSE e
Anexar(f, e) == IF Len(f) < MaxLinhas THEN f \o e ELSE f
\* a stream that already holds MaxLinhas lines of earlier runs
Cheio == [t \in Tasks |-> [i \in 1..MaxLinhas |-> Linha(t)]]

\* the dashboard before its main() has spawned the MQTT loop
PainelParado ==
    /\ history = <<>>
    /\ trava = "livre"
    /\ pcMqtt = "poll"
    /\ novo_registro = {}
    /\ pcPagina = "ocioso"
    /\ visto = <<>>
    /\ aceitas = <<>>

\* Config::new
ConfigNew == [intervalo_minutos |-> INTERVALO_LEITURA_MINUTOS]

\* main() before the first spawn: no task runs, no driver exists
Partida ==
    /\ mainPc = "spawn_bmp"
    /\ pc = [t \in Tasks |-> "nao_iniciada"]
    /\ contador_erros = [t \in Tasks |-> 0]
    /\ sensor = [t \in Tasks |-> "nenhum"]
    /\ passo = 0
    /\ fase = "chamar"
    /\ i2c_lock = "livre"
    /\ em_voo = {}
    /\ buffer = <<>>
    /\ calibracao = CalibracaoZero
    /\ t_fine = 0
    /\ novo = InstanciaNova
    /\ dados_bmp = {}
    /\ interrupcoes = TRUE
    /\ quadro = Zeros
    /\ nbits = 0
    /\ byte = 0
    /\ dados = Zeros
    /\ resultado = "nenhum"
    /\ retorno = "nenhum"
    /\ medida = {}
    /\ estouro = FALSE
    /\ leitura = [t \in Tasks |-> "nenhuma"]
    /\ gravacao = [t \in Tasks |-> "nenhuma"]
    /\ tentativas = [t \in Tasks |-> 0]
    /\ ativa = [t \in Tasks |-> FALSE]
    /\ falhou_init = [t \in Tasks |-> FALSE]
    /\ config = ConfigNew
    /\ intervalo = [t \in Tasks |-> 0]

\* main() has spawned both threads and waits in its first join; the first
\* driver construction of the other task has failed, task t is about to
\* construct its driver
SoTarefa(t) ==
    /\ mainPc = "join_bmp"
    /\ pc = [x \in Tasks |-> IF x = t THEN "new" ELSE "terminada"]
    /\ contador_erros = [x \in Tasks |-> 0]
    /\ sensor = [x \in Tasks |-> "nenhum"]
    /\ passo = IF t = "bmp" THEN 1 ELSE 0
    /\ fase = "chamar"
    /\ i2c_lock = "livre"
    /\ em_voo = {}
    /\ buffer = <<>>
    /\ calibracao = CalibracaoZero
    /\ t_fine = 0
    /\ novo = InstanciaNova
    /\ dados_bmp = {}
    /\ interrupcoes = TRUE
    /\ quadro = Zeros
    /\ nbits = 0
    /\ byte = 0
    /\ dados = Zeros
    /\ resultado = "nenhum"
    /\ retorno = "nenhum"
    /\ medida = {}
    /\ estouro = FALSE
    /\ leitura = [x \in Tasks |-> "nenhuma"]
    /\ gravacao = [x \in Tasks |-> "nenhuma"]
    /\ tentativas = [x \in Tasks |-> 0]
    /\ ativa = [x \in Tasks |-> FALSE]
    /\ falhou_init = [x \in Tasks |-> x # t]
    /\ config = ConfigNew
    /\ intervalo = [x \in Tasks |-> 0]

Init ==
    /\ Partida
    /\ regs = RegsPadrao
    /\ arquivo = Cheio
    /\ PainelParado
    /\ entrada = <<>>
    /\ saida = <<>>

(***************************************************************************)
(* main(): spawn both threads, then join them in order                     *)
(***************************************************************************)
\* thread::Builder::spawn(..)?  -- an Err returns from main
MainSpawn(t, ok) ==
    /\ mainPc = "spawn_" \o t
    /\ IF ok
       THEN /\ pc' = [pc EXCEPT ![t] = "new"]
            /\ mainPc' = IF t = "bmp" THEN "spawn_dht" ELSE "join_bmp"
            /\ passo' = IF t = "bmp" THEN 1 ELSE passo
       ELSE /\ mainPc' = "retornou_err"
            /\ UNCHANGED <<pc, passo>>
    /\ UNCHANGED <<contador_erros, sensor, fase, i2c_lock, em_voo, dhtVars, obsVars>>
    /\ UNCHANGED <<buffer, instVars, dados_bmp>>
    /\ UNCHANGED <<intervalo, arquivo, fixoVars>>

\* handle.join().unwrap(): blocks until the task function has returned
MainJoin(t) ==
    /\ mainPc = "join_" \o t
    /\ pc[t] = "terminada"
    /\ mainPc' = IF t = "bmp" THEN "join_dht" ELSE "retornou_ok"
    /\ UNCHANGED <<pc, contador_erros, sensor, bmpVars, dhtVars, obsVars>>
    /\ UNCHANGED <<intervalo, arquivo, fixoVars>>

(***************************************************************************)
(* The part of the loop both tasks share                                   *)
(***************************************************************************)
\* contador_erros >= MAX_ERROS
LimiarIgual(c) == c = MAX_ERROS
LimiarAtingido(c) == c >= MAX_ERROS

\* the counter after the Ok arm, whatever gravar_* returned
ContaFalhaDeGravacao(c, r) == IF r = "err" THEN c + 1 ELSE 0
ContadorAposGravar(c, r) == 0

\* the counter after the recovery of the Err arm; ok: the recovery's outcome
\* (task_bmp280 resets it only in the Ok arm of BMP280::new; task_dht11 has
\* no outcome and resets it always)
ContadorAposRecuperar(t, c, ok) == IF t = "dht" \/ ok THEN 0 ELSE c

\* where a task goes when its first driver construction fails: `return;`
ContinuaAposFalha == "ler_dados"
AposFalhaInicial == "terminada"

\* where task_bmp280 goes after the BMP280::new of its recovery: both arms of
\* the inner `match` fall through to the sleep
DesisteSeFalhar(ok) == IF ok THEN "dormir" ELSE "terminada"
AposReconstruir(ok) == "dormir"

\* Config::intervalo_ms (u64; the products of the minutes used here fit)
IntervaloDeFabrica(c) == INTERVALO_LEITURA_MINUTOS * 60 * 1000
IntervaloMs(c) == c.intervalo_minutos * 60 * 1000

\* start of a loop iteration: the observation of the cycle starts afresh
NovoCiclo(t) ==
    /\ leitura' = [leitura EXCEPT ![t] = "nenhuma"]
    /\ gravacao' = [gravacao EXCEPT ![t] = "nenhuma"]
    /\ tentativas' = [tentativas EXCEPT ![t] = 0]


(***************************************************************************)
(* BMP280: register operations on the shared bus                           *)
(***************************************************************************)
\* the BMP280 value whose method runs: the instance under construction in
\* BMP280::new, the task's `sensor` otherwise; both hold clones of one Arc
Chamador == IF pc["bmp"] \in {"new", "renew"} THEN "novo" ELSE "sensor"

\* self.i2c.lock().unwrap(): the guard belongs to the caller
SemGuarda(quem) == "livre"
GuardaDe(quem) == quem

\* the guard is a local of write_register / read_register: it is dropped when
\* the function returns, whatever the transaction's result r
GuardaSoNoSucesso(dono, r) == IF r = "ok" THEN "livre" ELSE dono
GuardaAposRetorno(dono, r) == "livre"

\* the register a transaction addresses: BMP280::new reads 0xD0 and 0x88,
\* writes 0xE0, and init writes 0xF4 and 0xF5; ler_dados polls 0xF3 and
\* then reads 0xF7
RegistrosDeNew == <<"id", "calib", "reset", "ctrl_meas", "config">>
Registro ==
    IF pc["bmp"] \in {"new", "renew"}
    THEN RegistrosDeNew[passo]
    ELSE IF passo < MAX_POLLS THEN "status" ELSE "dados"

\* what a successful read of the addressed register puts in the buffer
\* (st: the status the sensor reports); a write reads nothing
Lido(st) ==
    CASE Registro = "id" -> <<regs.id>>
      [] Registro = "calib" -> regs.calib
      [] Registro = "status" -> <<st>>
      [] Registro = "dados" -> regs.bruto
      [] OTHER -> <<>>

\* BMP280::new gives up at a step exactly when its transaction failed (`?`);
\* an unexpected identity is only logged.  p: the step, r: the transaction's
\* result, lido: what it read
AbortaComIdEstranho(p, r, lido) == r = "err" \/ (p = 1 /\ lido # <<CHIP_ID>>)
Aborta(p, r, lido) == r = "err"

\* the instance under construction after step p, which read `lido`
NovoAposPasso(s, p, lido) ==
    IF p = 2 THEN [s EXCEPT !.calibracao = DecodificarCalibracao(lido)] ELSE s

\* the recovery's `match`: sensor = s in the Ok arm only
SubstituirSempre(atual, s, ok) == s
Substituir(atual, s, ok) == IF ok THEN s ELSE atual

\* let mut i2c = self.i2c.lock().unwrap();  (blocks while another holds it)
BmpLock ==
    /\ pc["bmp"] \in {"new", "renew", "ler_dados"}
    /\ fase = "chamar"
    /\ i2c_lock = "livre"
    /\ i2c_lock' = GuardaDe(Chamador)
    /\ fase' = "travado"
    /\ ativa' = [ativa EXCEPT !["bmp"] = @ \/ pc["bmp"] = "ler_dados"]
    /\ UNCHANGED <<mainPc, pc, contador_erros, sensor, passo, em_voo, dhtVars,
                   leitura, gravacao, tentativas, falhou_init>>
    /\ UNCHANGED <<buffer, instVars, dados_bmp>>
    /\ UNCHANGED <<intervalo, arquivo, fixoVars>>

\* i2c.write(..) / i2c.write_read(..) puts the transaction on the wire
BmpIniciar ==
    /\ fase = "travado"
    /\ em_voo' = em_voo \cup {Chamador}
    /\ fase' = "em_voo"
    /\ UNCHANGED <<mainPc, pc, contador_erros, sensor, passo, i2c_lock, dhtVars, obsVars>>
    /\ UNCHANGED <<buffer, instVars, dados_bmp>>
    /\ UNCHANGED <<intervalo, arquivo, fixoVars>>

\* the transaction ends: Ok, with the bytes read in the buffer, or a
\* transport error (NACK, 1000-tick timeout)
BmpConcluir(r, st) ==
    /\ fase = "em_voo"
    /\ Registro # "status" => st = 0
    /\ pc["bmp"] = "ler_dados" /\ r = "err" => contador_erros["bmp"] < MaxContador
    /\ em_voo' = em_voo \ {Chamador}
    /\ fase' = r
    /\ buffer' = IF r = "ok" THEN Lido(st) ELSE <<>>
    /\ UNCHANGED <<mainPc, pc, contador_erros, sensor, passo, i2c_lock, dhtVars, obsVars>>
    /\ UNCHANGED <<instVars, dados_bmp>>
    /\ UNCHANGED <<intervalo, arquivo, fixoVars>>

\* a register operation of BMP280::new returns (the guard is dropped) and
\* `?` propagates an Err.  After the last of the five, new returns
\* Ok(sensor) to the `match` that called it: lines 466-474 at start-up,
\* lines 496-505 in the recovery.
BmpRetornarNew ==
    /\ pc["bmp"] \in {"new", "renew"}
    /\ fase \in {"ok", "err"}
    /\ i2c_lock' = GuardaAposRetorno(i2c_lock, fase)
    /\ fase' = "chamar"
    /\ buffer' = <<>>
    /\ LET aborta == Aborta(passo, fase, buffer)
           s == NovoAposPasso(novo, passo, buffer)
           atual == [calibracao |-> calibracao, t_fine |-> t_fine]
       IN IF ~aborta /\ passo < PASSOS_NEW
          THEN /\ passo' = passo + 1
               /\ novo' = s
               /\ UNCHANGED <<pc, contador_erros, sensor, falhou_init, calibracao, t_fine>>
          ELSE /\ passo' = 0
               /\ novo' = InstanciaNova
               /\ IF pc["bmp"] = "new"
                  THEN IF ~aborta
                       THEN /\ sensor' = [sensor EXCEPT !["bmp"] = "pronto"]
                            /\ calibracao' = s.calibracao
                            /\ t_fine' = s.t_fine
                            /\ contador_erros' = [contador_erros EXCEPT !["bmp"] = 0]
                            /\ pc' = [pc EXCEPT !["bmp"] = "ler_dados"]
                            /\ UNCHANGED falhou_init
                       ELSE /\ pc' = [pc EXCEPT !["bmp"] = AposFalhaInicial]
                            /\ falhou_init' = [falhou_init EXCEPT !["bmp"] = TRUE]
                            /\ UNCHANGED <<sensor, contador_erros, calibracao, t_fine>>
                  ELSE /\ sensor' = sensor
                       /\ calibracao' = Substituir(atual, s, ~aborta).calibracao
                       /\ t_fine' = Substituir(atual, s, ~aborta).t_fine
                       /\ contador_erros' = [contador_erros EXCEPT !["bmp"] =
                              ContadorAposRecuperar("bmp", @, ~aborta)]
                       /\ pc' = [pc EXCEPT !["bmp"] = AposReconstruir(~aborta)]
                       /\ UNCHANGED falhou_init
    /\ UNCHANGED <<mainPc, em_voo, dhtVars, leitura, gravacao, tentativas, ativa>>
    /\ UNCHANGED dados_bmp
    /\ UNCHANGED <<intervalo, arquivo, fixoVars>>

\* a register operation of BMP280::ler_dados returns.  passo < MAX_POLLS is a
\* poll of the status register 0xF3, passo = MAX_POLLS the burst read of
\* 0xF7; after it the compensation runs and ler_dados returns Ok(dados)
BmpRetornarLer ==
    /\ pc["bmp"] = "ler_dados"
    /\ fase \in {"ok", "err"}
    /\ i2c_lock' = GuardaAposRetorno(i2c_lock, fase)
    /\ fase' = "chamar"
    /\ buffer' = <<>>
    /\ IF fase = "err"
       THEN /\ pc' = [pc EXCEPT !["bmp"] = "erro"]
            /\ leitura' = [leitura EXCEPT !["bmp"] = "err"]
            /\ passo' = 0
            /\ UNCHANGED <<t_fine, dados_bmp>>
       ELSE IF passo < MAX_POLLS
            THEN /\ passo' = IF Medindo(buffer[1]) THEN passo + 1 ELSE MAX_POLLS
                 /\ UNCHANGED <<pc, leitura, t_fine, dados_bmp>>
            ELSE /\ pc' = [pc EXCEPT !["bmp"] = "gravar"]
                 /\ leitura' = [leitura EXCEPT !["bmp"] = "ok"]
                 /\ passo' = 0
                 /\ t_fine' = LerDados(calibracao, t_fine, buffer).t_fine
                 /\ dados_bmp' = {LerDados(calibracao, t_fine, buffer).dados}
    /\ UNCHANGED <<mainPc, contador_erros, sensor, em_voo, dhtVars, gravacao,
                   tentativas, ativa, falhou_init>>
    /\ UNCHANGED <<novo, calibracao>>
    /\ UNCHANGED <<intervalo, arquivo, fixoVars>>

(***************************************************************************)
(* task_bmp280: the arms of the loop's `match`, and the sleep              *)
(***************************************************************************)
\* Ok(dados) arm: gravar_bmp280(&dados), then contador_erros = 0; dados is
\* dropped at the end of the arm
BmpGravar(r, parcial) ==
    /\ pc["bmp"] = "gravar"
    /\ r = "ok" => ~parcial
    /\ arquivo' = [arquivo EXCEPT ![ArquivoDe("bmp")] = Anexar(@, Escrito("bmp", r, parcial))]
    /\ gravacao' = [gravacao EXCEPT !["bmp"] = r]
    /\ contador_erros' = [contador_erros EXCEPT !["bmp"] = ContadorAposGravar(@, r)]
    /\ pc' = [pc EXCEPT !["bmp"] = "dormir"]
    /\ dados_bmp' = {}
    /\ UNCHANGED <<mainPc, sensor, passo, fase, i2c_lock, em_voo, buffer, instVars,
                   dhtVars, leitura, tentativas, ativa, falhou_init>>
    /\ UNCHANGED <<intervalo, fixoVars>>

\* Err(e) arm: contador_erros += 1; at the threshold, delay 1 s and call
\* BMP280::new on a clone of sensor.i2c
BmpErro ==
    /\ pc["bmp"] = "erro"
    /\ contador_erros' = [contador_erros EXCEPT !["bmp"] = @ + 1]
    /\ IF LimiarAtingido(contador_erros'["bmp"])
       THEN /\ tentativas' = [tentativas EXCEPT !["bmp"] = @ + 1]
            /\ pc' = [pc EXCEPT !["bmp"] = "renew"]
            /\ passo' = 1
            /\ novo' = InstanciaNova
       ELSE /\ pc' = [pc EXCEPT !["bmp"] = "dormir"]
            /\ UNCHANGED <<tentativas, passo, novo>>
    /\ UNCHANGED <<mainPc, sensor, fase, i2c_lock, em_voo, dhtVars, leitura, gravacao,
                   ativa, falhou_init>>
    /\ UNCHANGED <<buffer, calibracao, t_fine, dados_bmp>>
    /\ UNCHANGED <<intervalo, arquivo, fixoVars>>

\* let intervalo = config.lock().unwrap().intervalo_ms(); then
\* thread::sleep(Duration::from_millis(intervalo)) starts
BmpDormir ==
    /\ pc["bmp"] = "dormir"
    /\ intervalo' = [intervalo EXCEPT !["bmp"] = IntervaloMs(config)]
    /\ pc' = [pc EXCEPT !["bmp"] = "dormindo"]
    /\ UNCHANGED <<mainPc, contador_erros, sensor, bmpVars, dhtVars, obsVars>>
    /\ UNCHANGED <<arquivo, fixoVars>>

\* thread::sleep returns after `intervalo`; next iteration of the loop
BmpAcordar ==
    /\ pc["bmp"] = "dormindo"
    /\ intervalo' = [intervalo EXCEPT !["bmp"] = 0]
    /\ pc' = [pc EXCEPT !["bmp"] = "ler_dados"]
    /\ NovoCiclo("bmp")
    /\ UNCHANGED <<mainPc, contador_erros, sensor, bmpVars, dhtVars, ativa, falhou_init>>
    /\ UNCHANGED <<arquivo, fixoVars>>

BmpNext ==
    \/ BmpLock
    \/ BmpIniciar
    \/ \E r \in {"ok", "err"}, st \in Estados : BmpConcluir(r, st)
    \/ BmpRetornarNew
    \/ BmpRetornarLer
    \/ \E r \in {"ok", "err"}, parcial \in BOOLEAN : BmpGravar(r, parcial)
    \/ BmpErro
    \/ BmpDormir
    \/ BmpAcordar

(***************************************************************************)
(* DHT11: the bit-banged read                                              *)
(***************************************************************************)
\* esperar_nivel: the line reaches the level after d us; the loop gives up
\* once the elapsed time is greater than timeout_us (Err(TIMEOUT)), else it
\* returns Ok(elapsed)
EsperarNivelInclusivo(d, timeout_us) == [ok |-> ~(d >= timeout_us), us |-> d]
EsperarNivel(d, timeout_us) == [ok |-> ~(d > timeout_us), us |-> d]

\* the line took longer than the bound to reach the level
Excedeu(d) == d > TIMEOUT_US

\* ler_bit: the three esperar_nivel(..)? -- the first Err leaves ler_bit
SoUltimaEspera(w1, w2, w3) == ~w3.ok
BitEstourou(w1, w2, w3) == ~w1.ok \/ ~w2.ok \/ ~w3.ok

\* ler_bit: Ok(duracao > 40)
BitNoLimiar(duracao) == IF duracao >= LIMIAR_BIT_US THEN 1 ELSE 0
BitDaDuracao(duracao) == IF duracao > LIMIAR_BIT_US THEN 1 ELSE 0

\* ler_byte: byte |= 1 << (7 - i), on a byte whose bit 7 - i is still 0
JuntarBit(b, i, bit) == b + bit * (2 ^ (BITS_POR_BYTE - 1 - i))

\* u8::wrapping_add
SomaSemWrap(a, b) == a + b
WrappingAdd(a, b) == (a + b) % 256

\* dados[0].wrapping_add(dados[1]).wrapping_add(dados[2]).wrapping_add(dados[3])
Checksum(d) == WrappingAdd(WrappingAdd(WrappingAdd(d[1], d[2]), d[3]), d[4])

\* steps 4 and 5 of ler_dados: Err(INVALID_CRC), or the reading; the f32
\* values byte + byte * 0.1 are kept in tenths
Avaliar(d) ==
    IF Checksum(d) # d[5]
    THEN [retorno |-> "crc", medida |-> {}]
    ELSE [retorno |-> "ok",
          medida |-> {[umidade |-> 10 * d[1] + d[2], temperatura |-> 10 * d[3] + d[4]]}]

\* ler_dados returns Err(e) / Ok(dados) to the task's `match`; its locals
\* end with it
DhtRetornar(r, m) ==
    /\ retorno' = r
    /\ medida' = m
    /\ pc' = [pc EXCEPT !["dht"] = IF r = "ok" THEN "gravar" ELSE "erro"]
    /\ leitura' = [leitura EXCEPT !["dht"] = IF r = "ok" THEN "ok" ELSE "err"]
    /\ quadro' = Zeros
    /\ nbits' = 0
    /\ byte' = 0
    /\ dados' = Zeros
    /\ resultado' = "nenhum"

\* DHT11::new: PinDriver::input_output_od(pin)?; lines 518-526 of the task
DhtNew(ok) ==
    /\ pc["dht"] = "new"
    /\ IF ok
       THEN /\ sensor' = [sensor EXCEPT !["dht"] = "pronto"]
            /\ contador_erros' = [contador_erros EXCEPT !["dht"] = 0]
            /\ pc' = [pc EXCEPT !["dht"] = "ler_dados"]
            /\ UNCHANGED falhou_init
       ELSE /\ pc' = [pc EXCEPT !["dht"] = AposFalhaInicial]
            /\ falhou_init' = [falhou_init EXCEPT !["dht"] = TRUE]
            /\ UNCHANGED <<sensor, contador_erros>>
    /\ UNCHANGED <<mainPc, bmpVars, dhtVars, leitura, gravacao, tentativas, ativa>>
    /\ UNCHANGED <<intervalo, arquivo, fixoVars>>

\* entry of ler_dados: portDISABLE_INTERRUPTS()
DhtDesabilitar ==
    /\ pc["dht"] = "ler_dados"
    /\ interrupcoes' = FALSE
    /\ pc' = [pc EXCEPT !["dht"] = "inicio1"]
    /\ ativa' = [ativa EXCEPT !["dht"] = TRUE]
    /\ UNCHANGED <<mainPc, contador_erros, sensor, bmpVars, quadro, nbits, byte, dados,
                   resultado, retorno, medida, estouro, leitura, gravacao, tentativas,
                   falhou_init>>
    /\ UNCHANGED <<intervalo, arquivo, fixoVars>>

\* the start pulse: self.pin.set_high()?; set_low()?; set_high()?  An Err
\* leaves ler_dados through `?`
DhtPino(ok) ==
    /\ pc["dht"] \in {"inicio1", "inicio2", "inicio3"}
    /\ IF ok
       THEN /\ pc' = [pc EXCEPT !["dht"] =
                        CASE @ = "inicio1" -> "inicio2"
                          [] @ = "inicio2" -> "inicio3"
                          [] OTHER -> "resp_baixo"]
            /\ UNCHANGED <<retorno, medida, leitura, quadro, nbits, byte, dados, resultado>>
       ELSE DhtRetornar("pino", {})
    /\ UNCHANGED <<mainPc, contador_erros, sensor, bmpVars, interrupcoes, estouro,
                   gravacao, tentativas, ativa, falhou_init>>
    /\ UNCHANGED <<intervalo, arquivo, fixoVars>>

\* the handshake: esperar_nivel(false, 100), then esperar_nivel(true, 100);
\* on Err: portENABLE_INTERRUPTS(), return Err(TIMEOUT).  After the second
\* the sensor starts sending the frame q.
DhtResposta(d, q) ==
    /\ pc["dht"] \in {"resp_baixo", "resp_alto"}
    /\ estouro' = (estouro \/ Excedeu(d))
    /\ IF ~EsperarNivel(d, TIMEOUT_US).ok
       THEN /\ interrupcoes' = TRUE
            /\ DhtRetornar("timeout", {})
       ELSE /\ pc' = [pc EXCEPT !["dht"] = IF @ = "resp_baixo" THEN "resp_alto" ELSE "bits"]
            /\ quadro' = IF pc["dht"] = "resp_alto" THEN q ELSE quadro
            /\ UNCHANGED <<interrupcoes, retorno, medida, leitura, nbits, byte,
                           dados, resultado>>
    /\ UNCHANGED <<mainPc, contador_erros, sensor, bmpVars, gravacao, tentativas, ativa,
                   falhou_init>>
    /\ UNCHANGED <<intervalo, arquivo, fixoVars>>

\* one ler_bit inside ler_byte inside the closure: three bounded waits
\* (d1: low, d2: high, d3: the length of the high pulse).  The 8th bit of a
\* byte stores it in dados; the 40th ends the closure with Ok(dados); an Err
\* of any wait ends the closure at once with that Err, dropping its locals.
DhtLerBit(d1, d2, d3) ==
    /\ pc["dht"] = "bits"
    /\ d3 \in PulsoDoBit(BitDoQuadro(quadro, nbits))
    /\ estouro' = (estouro \/ Excedeu(d1) \/ Excedeu(d2) \/ Excedeu(d3))
    /\ LET i == nbits % BITS_POR_BYTE
           k == (nbits \div BITS_POR_BYTE) + 1
           w1 == EsperarNivel(d1, TIMEOUT_US)
           w2 == EsperarNivel(d2, TIMEOUT_US)
           w3 == EsperarNivel(d3, TIMEOUT_US)
           b == JuntarBit(byte, i, BitDaDuracao(w3.us))
           fim == nbits + 1 = N_BYTES * BITS_POR_BYTE
       IN IF BitEstourou(w1, w2, w3)
          THEN /\ resultado' = "timeout"
               /\ pc' = [pc EXCEPT !["dht"] = "reabilitar"]
               /\ nbits' = 0
               /\ byte' = 0
               /\ dados' = Zeros
               /\ quadro' = Zeros
          ELSE /\ nbits' = IF fim THEN 0 ELSE nbits + 1
               /\ byte' = IF i = BITS_POR_BYTE - 1 THEN 0 ELSE b
               /\ dados' = IF i = BITS_POR_BYTE - 1 THEN [dados EXCEPT ![k] = b] ELSE dados
               /\ resultado' = IF fim THEN "ok" ELSE resultado
               /\ pc' = [pc EXCEPT !["dht"] = IF fim THEN "reabilitar" ELSE @]
               /\ quadro' = IF fim THEN Zeros ELSE quadro
    /\ UNCHANGED <<mainPc, contador_erros, sensor, bmpVars, interrupcoes, retorno,
                   medida, obsVars>>
    /\ UNCHANGED <<intervalo, arquivo, fixoVars>>

\* after the closure: portENABLE_INTERRUPTS()
DhtReabilitar ==
    /\ pc["dht"] = "reabilitar"
    /\ interrupcoes' = TRUE
    /\ pc' = [pc EXCEPT !["dht"] = "resultado"]
    /\ UNCHANGED <<mainPc, contador_erros, sensor, bmpVars, quadro, nbits, byte, dados,
                   resultado, retorno, medida, estouro, obsVars>>
    /\ UNCHANGED <<intervalo, arquivo, fixoVars>>

\* let dados = resultado?;
DhtResultado ==
    /\ pc["dht"] = "resultado"
    /\ IF resultado = "timeout"
       THEN DhtRetornar("timeout", {})
       ELSE /\ pc' = [pc EXCEPT !["dht"] = "checksum"]
            /\ UNCHANGED <<retorno, medida, leitura, quadro, nbits, byte, dados, resultado>>
    /\ UNCHANGED <<mainPc, contador_erros, sensor, bmpVars, interrupcoes, estouro,
                   gravacao, tentativas, ativa, falhou_init>>
    /\ UNCHANGED <<intervalo, arquivo, fixoVars>>

\* checksum test and conversion
DhtChecksum ==
    /\ pc["dht"] = "checksum"
    /\ DhtRetornar(Avaliar(dados).retorno, Avaliar(dados).medida)
    /\ UNCHANGED <<mainPc, contador_erros, sensor, bmpVars, interrupcoes, estouro,
                   gravacao, tentativas, ativa, falhou_init>>
    /\ UNCHANGED <<intervalo, arquivo, fixoVars>>

(***************************************************************************)
(* task_dht11: the arms of the loop's `match`, and the sleep               *)
(***************************************************************************)
\* the arm is over: the value matched on is dropped
DhtConsumir ==
    /\ retorno' = "nenhum"
    /\ medida' = {}
    /\ estouro' = FALSE

\* Ok(dados) arm: gravar_dht11(&dados), then contador_erros = 0
DhtGravar(r, parcial) ==
    /\ pc["dht"] = "gravar"
    /\ r = "ok" => ~parcial
    /\ arquivo' = [arquivo EXCEPT ![ArquivoDe("dht")] = Anexar(@, Escrito("dht", r, parcial))]
    /\ gravacao' = [gravacao EXCEPT !["dht"] = r]
    /\ contador_erros' = [contador_erros EXCEPT !["dht"] = ContadorAposGravar(@, r)]
    /\ pc' = [pc EXCEPT !["dht"] = "dormir"]
    /\ DhtConsumir
    /\ UNCHANGED <<mainPc, sensor, bmpVars, interrupcoes, quadro, nbits, byte, dados,
                   resultado, leitura, tentativas, ativa, falhou_init>>
    /\ UNCHANGED <<intervalo, fixoVars>>

\* Err(e) arm: contador_erros += 1; at the threshold, contador_erros = 0
DhtErro ==
    /\ pc["dht"] = "erro"
    /\ LET c == contador_erros["dht"] + 1 IN
       IF LimiarAtingido(c)
       THEN /\ tentativas' = [tentativas EXCEPT !["dht"] = @ + 1]
            /\ contador_erros' = [contador_erros EXCEPT !["dht"] =
                                     ContadorAposRecuperar("dht", c, TRUE)]
       ELSE /\ contador_erros' = [contador_erros EXCEPT !["dht"] = c]
            /\ UNCHANGED tentativas
    /\ pc' = [pc EXCEPT !["dht"] = "dormir"]
    /\ DhtConsumir
    /\ UNCHANGED <<mainPc, sensor, bmpVars, interrupcoes, quadro, nbits, byte, dados,
                   resultado, leitura, gravacao, ativa, falhou_init>>
    /\ UNCHANGED <<intervalo, arquivo, fixoVars>>

\* let intervalo = config.lock().unwrap().intervalo_ms(); then
\* thread::sleep(Duration::from_millis(intervalo)) starts
DhtDormir ==
    /\ pc["dht"] = "dormir"
    /\ intervalo' = [intervalo EXCEPT !["dht"] = IntervaloMs(config)]
    /\ pc' = [pc EXCEPT !["dht"] = "dormindo"]
    /\ UNCHANGED <<mainPc, contador_erros, sensor, bmpVars, dhtVars, obsVars>>
    /\ UNCHANGED <<arquivo, fixoVars>>

\* thread::sleep returns after `intervalo`; next iteration of the loop
DhtAcordar ==
    /\ pc["dht"] = "dormindo"
    /\ intervalo' = [intervalo EXCEPT !["dht"] = 0]
    /\ pc' = [pc EXCEPT !["dht"] = "ler_dados"]
    /\ NovoCiclo("dht")
    /\ UNCHANGED <<mainPc, contador_erros, sensor, bmpVars, dhtVars, ativa, falhou_init>>
    /\ UNCHANGED <<arquivo, fixoVars>>

DhtNext ==
    \/ \E ok \in BOOLEAN : DhtNew(ok)
    \/ DhtDesabilitar
    \/ \E ok \in BOOLEAN : DhtPino(ok)
    \/ \E d \in Esperas, q \in Quadros : DhtResposta(d, q)
    \/ \E d1, d2 \in Esperas, d3 \in Pulsos : DhtLerBit(d1, d2, d3)
    \/ DhtReabilitar
    \/ DhtResultado
    \/ DhtChecksum
    \/ \E r \in {"ok", "err"}, parcial \in BOOLEAN : DhtGravar(r, parcial)
    \/ DhtErro
    \/ DhtDormir
    \/ DhtAcordar

(***************************************************************************)
(* The system                                                              *)
(***************************************************************************)
MainNext ==
    \/ \E t \in Tasks, ok \in BOOLEAN : MainSpawn(t, ok)
    \/ \E t \in Tasks : MainJoin(t)

Next == MainNext \/ BmpNext \/ DhtNext

Spec == Init /\ [][Next]_vars

(***************************************************************************)
(* Properties                                                              *)
(***************************************************************************)

\* C1: in each task, after a cycle whose read failed, either no recovery
\* was triggered and the counter is between 1 and MAX_ERROS - 1 (the first
\* to fourth consecutive failure), or exactly one recovery was triggered (the
\* fifth) and the counter is 0 again, whatever the recovery's outcome.
C1_LimiarDeFalhas ==
    \A t \in Tasks :
        pc[t] = "dormir" /\ leitura[t] = "err" =>
            IF tentativas[t] = 0
            THEN contador_erros[t] \in 1..(MAX_ERROS - 1)
            ELSE tentativas[t] = 1 /\ contador_erros[t] = 0

\* C2: whenever DHT11::ler_dados has returned (the task is in an arm of its
\* `match`), or evaluates the decoded bytes, interrupts are enabled.
C2_InterrupcoesRestauradas ==
    pc["dht"] \in {"checksum", "gravar", "erro"} => interrupcoes

\* C3: no task reaches its inter-cycle sleep with the counter at or above
\* MAX_ERROS unless a recovery was triggered in that same cycle.
C3_LimiarComRecuperacao ==
    \A t \in Tasks :
        pc[t] = "dormir" /\ contador_erros[t] >= MAX_ERROS => tentativas[t] >= 1

\* the pressure task sleeps with the counter above the threshold, after the
\* recovery that cycle triggered
C3_Witness ==
    /\ pc["bmp"] = "dormir"
    /\ contador_erros["bmp"] > MAX_ERROS
    /\ tentativas["bmp"] = 1

\* C4: a task whose first driver construction failed has terminated without
\* ever starting a read, a write or a sleep; the step in which it fails
\* changes nothing of the other task; while the other task is in its loop it
\* can still take a step and main() has not returned.
C4_FalhaInicialIsolada ==
    /\ [](\A t \in Tasks :
            falhou_init[t] =>
                /\ pc[t] = "terminada"
                /\ ~ativa[t]
                /\ sensor[t] = "nenhum"
                /\ pc[Outra(t)] \in Running =>
                       /\ mainPc \notin {"retornou_ok"}
                       /\ IF t = "bmp" THEN ENABLED DhtNext ELSE ENABLED BmpNext)
    /\ [][\A t \in Tasks :
            ~falhou_init[t] /\ falhou_init'[t] =>
                /\ pc'[Outra(t)] = pc[Outra(t)]
                /\ contador_erros'[Outra(t)] = contador_erros[Outra(t)]
                /\ sensor'[Outra(t)] = sensor[Outra(t)]
                /\ IF t = "bmp" THEN UNCHANGED dhtVars ELSE UNCHANGED bmpVars]_vars

\* the pressure driver could not be constructed; the humidity task has
\* completed a cycle and main() waits for it
C4_Witness ==
    /\ falhou_init["bmp"]
    /\ pc["dht"] = "dormir"
    /\ ativa["dht"]
    /\ mainPc = "join_dht"

\* C5: a task that is in its loop stays in its loop and can always take its
\* next step, whatever failed; a task has terminated only if its first
\* driver construction failed.
C5_LoopNuncaTermina ==
    /\ [][\A t \in Tasks : pc[t] \in Running => pc'[t] \in Running]_vars
    /\ [](\A t \in Tasks : pc[t] = "terminada" => falhou_init[t])
    /\ [](pc["bmp"] \in Running => ENABLED BmpNext)
    /\ [](pc["dht"] \in Running => ENABLED DhtNext)

\* the pressure task starts another cycle after a failed read, a failed
\* reconstruction and a further failed read
C5_Witness ==
    /\ pc["bmp"] = "ler_dados"
    /\ contador_erros["bmp"] > MAX_ERROS
    /\ pc["dht"] = "ler_dados"
    /\ contador_erros["dht"] = MAX_ERROS - 1

\* C6: a cycle whose read succeeded ends with the counter at 0 and without
\* a recovery, whether the write succeeded or failed.
C6_GravacaoNaoContaFalha ==
    \A t \in Tasks :
        pc[t] = "dormir" /\ leitura[t] = "ok" =>
            /\ gravacao[t] \in {"ok", "err"}
            /\ contador_erros[t] = 0
            /\ tentativas[t] = 0

\* both tasks sleep after a successful read whose write failed
C6_Witness ==
    \A t \in Tasks : pc[t] = "dormir" /\ leitura[t] = "ok" /\ gravacao[t] = "err"

\* C7: at most one transaction is on the bus, and the instance it belongs to
\* holds the bus lock from before the transaction starts until after it ends.
C7_UmaTransacaoPorVez ==
    /\ Cardinality(em_voo) <= 1
    /\ em_voo \subseteq {i2c_lock}
    /\ fase \in {"travado", "em_voo", "ok", "err"} => i2c_lock = Chamador

\* a transaction of the replacement instance is on the bus during the
\* reconstruction
C7_Witness ==
    /\ pc["bmp"] = "renew"
    /\ em_voo = {"novo"}
    /\ i2c_lock = "novo"

\* C8: the bus lock is held only inside a register operation: whenever no
\* write_register / read_register is executing (between the operations of a
\* call, in the delays, the compensation, the persistence write, the sleep)
\* the bus is free, whether the last transaction succeeded or failed.
C8_BusLivreForaDaTransacao ==
    /\ fase = "chamar" => i2c_lock = "livre" /\ em_voo = {}
    /\ pc["bmp"] \notin {"new", "renew", "ler_dados"} => fase = "chamar"

\* the reconstruction that follows the fifth failed read has acquired the
\* bus
C8_Witness ==
    /\ pc["bmp"] = "renew"
    /\ leitura["bmp"] = "err"
    /\ contador_erros["bmp"] = MAX_ERROS
    /\ passo = 1
    /\ i2c_lock = "novo"

\* C9: a humidity read in which a wait took longer than TIMEOUT_US decodes
\* no further bit, never evaluates the checksum and returns the timeout
\* error without a reading; and a read returns the timeout error only if a
\* wait took longer than TIMEOUT_US.
C9_EstouroAbortaLeitura ==
    /\ estouro =>
          /\ pc["dht"] \in {"reabilitar", "resultado", "erro"}
          /\ medida = {}
          /\ pc["dht"] = "erro" => retorno = "timeout"
          /\ pc["dht"] # "erro" => resultado = "timeout"
    /\ retorno = "timeout" \/ resultado = "timeout" => estouro

\* a wait of a data bit exceeded its bound: the closure has ended with the
\* timeout error and interrupts are enabled again
C9_Witness ==
    /\ estouro
    /\ pc["dht"] = "resultado"
    /\ resultado = "timeout"
    /\ interrupcoes

(***************************************************************************)
(* The checksum test and the conversion on received bytes                  *)
(***************************************************************************)
\* byte values a frame is built from: the ends of the range, the values
\* around the sign bit, and 1
Amostra == {0, 1, 127, 128, 255}

\* the humidity task has decoded 40 bits into any five of these bytes and
\* is about to test the checksum; the pressure task sleeps after a cycle
InitQuadro ==
    /\ mainPc = "join_bmp"
    /\ pc = [t \in Tasks |-> IF t = "dht" THEN "checksum" ELSE "dormir"]
    /\ contador_erros = [t \in Tasks |-> 0]
    /\ sensor = [t \in Tasks |-> "pronto"]
    /\ passo = 0
    /\ fase = "chamar"
    /\ i2c_lock = "livre"
    /\ em_voo = {}
    /\ buffer = <<>>
    /\ calibracao = DecodificarCalibracao(CalibA)
    /\ t_fine = 0
    /\ novo = [calibracao |-> CalibracaoZero, t_fine |-> 0]
    /\ dados_bmp = {}
    /\ regs = RegsPadrao
    /\ arquivo = Cheio
    /\ PainelParado
    /\ interrupcoes = TRUE
    /\ quadro = Zeros
    /\ nbits = 0
    /\ byte = 0
    /\ dados \in [1..N_BYTES -> Amostra]
    /\ resultado = "ok"
    /\ retorno = "nenhum"
    /\ medida = {}
    /\ estouro = FALSE
    /\ leitura = [t \in Tasks |-> IF t = "dht" THEN "nenhuma" ELSE "ok"]
    /\ gravacao = [t \in Tasks |-> IF t = "dht" THEN "nenhuma" ELSE "ok"]
    /\ tentativas = [t \in Tasks |-> 0]
    /\ ativa = [t \in Tasks |-> TRUE]
    /\ falhou_init = [t \in Tasks |-> FALSE]
    /\ config = ConfigNew
    /\ intervalo = [t \in Tasks |-> 0]
    /\ entrada = <<>>
    /\ saida = <<>>

NextQuadro ==
    \/ DhtChecksum
    \/ \E r \in {"ok", "err"}, parcial \in BOOLEAN : DhtGravar(r, parcial)
    \/ DhtErro

SpecQuadro == InitQuadro /\ [][NextQuadro]_vars

\* C10: for received bytes [a, b, c, d, k], the read returns the reading
\* humidity = 10a + b, temperature = 10c + d (in tenths) if
\* k = (a + b + c + d) mod 256, and the checksum error without a reading
\* for any other k.
C10_ChecksumEConversao ==
    [][pc["dht"] = "checksum" /\ pc'["dht"] # "checksum" =>
         LET a == dados[1]
             b == dados[2]
             c == dados[3]
             d == dados[4]
             k == dados[5]
         IN IF k = (a + b + c + d) % 256
            THEN /\ pc'["dht"] = "gravar"
                 /\ retorno' = "ok"
                 /\ medida' = {[umidade |-> 10 * a + b, temperatura |-> 10 * c + d]}
            ELSE /\ pc'["dht"] = "erro"
                 /\ retorno' = "crc"
                 /\ medida' = {}]_vars

\* the frame [255, 1, 128, 0, 128], whose byte sum 384 wraps to 128, was
\* accepted
C10_Witness ==
    /\ pc["dht"] = "gravar"
    /\ retorno = "ok"
    /\ medida = {[umidade |-> 2551, temperatura |-> 1280]}

(***************************************************************************)
(* The 40-bit decode on a train of pulses                                  *)
(***************************************************************************)
\* ler_byte on the high-pulse durations of eight bits: for i in 0..8, the
\* i-th bit read is or-ed into the byte at position 7 - i
RECURSIVE LerByte(_, _, _)
LerByte(duracoes, i, b) ==
    IF i = BITS_POR_BYTE
    THEN b
    ELSE LerByte(duracoes, i + 1, JuntarBit(b, i, BitDaDuracao(duracoes[i + 1])))

\* the closure of ler_dados: for i in 0..5 { dados[i] = self.ler_byte()? },
\* on the durations of the 40 high pulses, none of which timed out
LerQuadro(duracoes) ==
    [k \in 1..N_BYTES |->
        LerByte(SubSeq(duracoes, BITS_POR_BYTE * (k - 1) + 1, BITS_POR_BYTE * k), 0, 0)]

\* trains of 40 high pulses: the long ones are those at the positions n
\* (0-based) with n % m = r; short and long lengths on both sides of the
\* threshold, at it, and at the ends of what esperar_nivel accepts
Periodos == {1, 2, 3, 5, 7, 8}
Larguras == { <<26, 70>>, <<40, 41>>, <<1, 100>> }
TrensDePulsos ==
    { [n \in 1..(N_BYTES * BITS_POR_BYTE) |-> IF (n - 1) % m = r THEN w[2] ELSE w[1]] :
        m \in Periodos, r \in 0..7, w \in Larguras }

InitBits ==
    /\ Partida
    /\ regs = RegsPadrao
    /\ arquivo = Cheio
    /\ PainelParado
    /\ entrada \in TrensDePulsos
    /\ saida = <<>>

\* the closure runs on the pulses and returns Ok(dados)
DhtDecodificar ==
    /\ saida = <<>>
    /\ saida' = LerQuadro(entrada)
    /\ UNCHANGED <<mainPc, pc, contador_erros, sensor, bmpVars, dhtVars, obsVars,
                   regs, config, intervalo, arquivo, entrada, painelVars>>

SpecBits == InitBits /\ [][DhtDecodificar]_vars

\* C11: the decode of 40 pulses none of which timed out yields 5 bytes in
\* which bit 7 - (n mod 8) of byte n div 8 is 1 exactly when the n-th high
\* pulse (0-based) lasted more than 40 us; a pulse of exactly 40 us is a 0.
C11_BitsNaOrdemDeChegada ==
    saida # <<>> =>
        /\ Len(entrada) = 40
        /\ Len(saida) = 5
        /\ \A n \in 0..39 :
              ((saida[(n \div 8) + 1] \div (2 ^ (7 - (n % 8)))) % 2 = 1) <=> (entrada[n + 1] > 40)
        /\ \A k \in 1..5 : saida[k] \in 0..255

\* pulses of 41 us at the first bit of every byte and of 40 us elsewhere
\* were decoded as five bytes 128
C11_Witness ==
    /\ entrada[1] = 41
    /\ entrada[2] = 40
    /\ entrada[9] = 41
    /\ saida = <<128, 128, 128, 128, 128>>

(***************************************************************************)
(* The pressure task on its own, with a sensor that keeps measuring and    *)
(* may be replaced by another part while no construction is running        *)
(***************************************************************************)
Brutos == {BrutoA, BrutoB}
Pecas == { [id |-> CHIP_ID, calib |-> CalibA], [id |-> 96, calib |-> CalibB] }

\* the sensor finishes a measurement: new data registers
SensorMede(b) ==
    /\ b # regs.bruto
    /\ regs' = [regs EXCEPT !.bruto = b]
    /\ UNCHANGED <<mainPc, pc, contador_erros, sensor, bmpVars, dhtVars, obsVars,
                   config, intervalo, arquivo, entrada, saida, painelVars>>

\* another part answers at the address: other identity and calibration
SensorTrocado(p) ==
    /\ pc["bmp"] \notin {"new", "renew"}
    /\ p.calib # regs.calib
    /\ regs' = [regs EXCEPT !.id = p.id, !.calib = p.calib]
    /\ UNCHANGED <<mainPc, pc, contador_erros, sensor, bmpVars, dhtVars, obsVars,
                   config, intervalo, arquivo, entrada, saida, painelVars>>

InitBmp ==
    /\ SoTarefa("bmp")
    /\ regs \in Sensores
    /\ arquivo = Cheio
    /\ PainelParado
    /\ entrada = <<>>
    /\ saida = <<>>

NextBmp ==
    \/ BmpNext
    \/ \E b \in Brutos : SensorMede(b)
    \/ \E p \in Pecas : SensorTrocado(p)

SpecBmp == InitBmp /\ [][NextBmp]_vars

\* C12: a pressure read starts with its first poll; every poll that
\* returns Ok with bit 3 of the status set is followed by the next poll, up
\* to the 10th, and the first one with the bit clear, or the 10th whatever
\* it read, by the burst read; the burst read returning Ok ends the call
\* with a reading; a transaction returning Err ends the call with the error,
\* with no reading and before any further transaction; and only these end it.
C12_PollsEBurst ==
    /\ [][pc["bmp"] = "ler_dados" /\ fase \in {"ok", "err"} /\ fase' = "chamar" =>
            /\ passo \in 0..10
            /\ fase = "err" =>
                  pc'["bmp"] = "erro" /\ dados_bmp' = {} /\ passo' = 0
            /\ fase = "ok" /\ passo < 10 =>
                  /\ Len(buffer) = 1
                  /\ pc'["bmp"] = "ler_dados"
                  /\ dados_bmp' = {}
                  /\ passo' = IF buffer[1] % 16 >= 8 THEN passo + 1 ELSE 10
            /\ fase = "ok" /\ passo = 10 =>
                  /\ Len(buffer) = 6
                  /\ pc'["bmp"] = "gravar"
                  /\ dados_bmp' # {}
                  /\ passo' = 0]_vars
    /\ [][pc["bmp"] # "ler_dados" /\ pc'["bmp"] = "ler_dados" =>
            passo' = 0 /\ fase' = "chamar"]_vars
    /\ [][pc["bmp"] = "ler_dados" /\ pc'["bmp"] # "ler_dados" =>
            /\ fase \in {"ok", "err"}
            /\ pc'["bmp"] = IF fase = "ok" THEN "gravar" ELSE "erro"]_vars

\* the 10th poll of a read has returned with the sensor still measuring
C12_Witness ==
    /\ pc["bmp"] = "ler_dados"
    /\ passo = 9
    /\ fase = "ok"
    /\ buffer = <<8>>

\* C13: the pressure compensation of a read uses the t_fine computed from
\* the raw temperature of that read's own burst, which is also the t_fine
\* the instance keeps: not the 0 of a fresh instance, not the value an
\* earlier read left.
C13_TFineDoMesmoCiclo ==
    [][pc["bmp"] = "ler_dados" /\ pc'["bmp"] = "gravar" =>
         LET adc_t == buffer[4] * 4096 + buffer[5] * 16 + (buffer[6] \div 16)
             tf == CompensarTemperatura(calibracao, adc_t).t_fine
         IN /\ t_fine' = tf
            /\ \E d \in dados_bmp' :
                  /\ dados_bmp' = {d}
                  /\ d.pressao.t_fine = tf
                  /\ d.temperatura = CompensarTemperatura(calibracao, adc_t).t]_vars

\* the read of the colder sample returned 18.85 C with a pressure computed
\* on that sample's t_fine
C13_Witness ==
    /\ pc["bmp"] = "gravar"
    /\ t_fine = 96494
    /\ dados_bmp = {[temperatura |-> 1885, pressao |-> [t_fine |-> 96494, adc_p |-> 400000]]}

\* C14: the construction's transactions are, in order, the identity read,
\* the 24-byte calibration read and three writes; one that returns Err ends
\* the construction at once without an instance (at start-up the task has
\* none, in the recovery it keeps the one it had); one that returns Ok is
\* followed by the next, whatever identity was read; only the fifth
\* returning Ok yields the instance.  So the task's instance, on which alone
\* the compensation runs, always holds a fully decoded calibration block.
C14_ConstrucaoEmOrdem ==
    /\ [](pc["bmp"] \in {"new", "renew"} =>
            /\ passo \in 1..5
            /\ fase = "ok" =>
                  buffer = CASE passo = 1 -> <<regs.id>>
                             [] passo = 2 -> regs.calib
                             [] OTHER -> <<>>)
    /\ [][pc["bmp"] \in {"new", "renew"} /\ fase \in {"ok", "err"} /\ fase' = "chamar" =>
            /\ fase = "err" =>
                  /\ pc'["bmp"] = IF pc["bmp"] = "new" THEN "terminada" ELSE "dormir"
                  /\ sensor' = sensor
                  /\ calibracao' = calibracao /\ t_fine' = t_fine
            /\ fase = "ok" /\ passo < 5 =>
                  /\ pc'["bmp"] = pc["bmp"]
                  /\ passo' = passo + 1
                  /\ sensor' = sensor
            /\ fase = "ok" /\ passo = 5 =>
                  /\ pc'["bmp"] \in Running
                  /\ sensor'["bmp"] = "pronto"]_vars
    /\ [][sensor'["bmp"] # sensor["bmp"] =>
            pc["bmp"] = "new" /\ passo = 5 /\ fase = "ok"]_vars
    /\ [](pc["bmp"] \in Running => sensor["bmp"] = "pronto")
    /\ [](sensor["bmp"] = "pronto" =>
            calibracao \in {DecodificarCalibracao(p.calib) : p \in Pecas})

\* a reading was compensated on an instance constructed from a part that
\* answered another identity
C14_Witness ==
    /\ regs.id = 96
    /\ pc["bmp"] = "gravar"
    /\ calibracao = DecodificarCalibracao(CalibB)
    /\ dados_bmp # {}

\* C15: the fields of the task's instance change only by being replaced as
\* a whole by a completed construction, or by a read storing its t_fine.  A
\* reconstruction that fails at any of its steps leaves them as they were
\* and the task goes on with that instance; no read runs while an instance
\* is under construction.
C15_InstanciaSoTrocadaNoSucesso ==
    /\ [][calibracao' # calibracao \/ t_fine' # t_fine =>
            \/ /\ pc["bmp"] \in {"new", "renew"}
               /\ passo = 5 /\ fase = "ok"
               /\ calibracao' = novo.calibracao
               /\ t_fine' = novo.t_fine
            \/ /\ pc["bmp"] = "ler_dados"
               /\ pc'["bmp"] = "gravar"
               /\ calibracao' = calibracao]_vars
    /\ [][pc["bmp"] = "renew" /\ fase = "err" /\ fase' = "chamar" =>
            /\ calibracao' = calibracao
            /\ t_fine' = t_fine
            /\ sensor'["bmp"] = "pronto"
            /\ pc'["bmp"] = "dormir"]_vars
    /\ [](pc["bmp"] \notin {"new", "renew"} => novo = [calibracao |-> CalibracaoZero, t_fine |-> 0])
    /\ [](pc["bmp"] = "renew" => sensor["bmp"] = "pronto")

\* the reconstruction has re-read the calibration of another part and its
\* third transaction has failed; the task's instance still holds the
\* coefficients and the t_fine it had
C15_Witness ==
    /\ pc["bmp"] = "renew"
    /\ passo = 3
    /\ fase = "err"
    /\ novo.calibracao = DecodificarCalibracao(CalibB)
    /\ calibracao = DecodificarCalibracao(CalibA)
    /\ t_fine = 128422

\* C16: every completed construction yields the coefficients decoded from
\* the calibration registers as they are and a t_fine of 0, so that a
\* reconstruction on registers that still hold what the previous construction
\* decoded yields the same coefficients; it starts from a fresh instance
\* and a free bus, and leaves the bus free.
C16_ReconstrucaoIdempotente ==
    /\ [][pc["bmp"] \in {"new", "renew"} /\ passo = 5 /\ fase = "ok" /\ fase' = "chamar" =>
            /\ calibracao' = DecodificarCalibracao(regs.calib)
            /\ t_fine' = 0
            /\ i2c_lock' = "livre" /\ em_voo' = {}
            /\ (pc["bmp"] = "renew" /\ calibracao = DecodificarCalibracao(regs.calib)) =>
                  calibracao' = calibracao]_vars
    /\ [](pc["bmp"] \in {"new", "renew"} /\ passo = 1 /\ fase = "chamar" =>
            /\ novo = [calibracao |-> CalibracaoZero, t_fine |-> 0]
            /\ i2c_lock = "livre"
            /\ buffer = <<>>)

\* the recovery has replaced an instance that had been read from by one with
\* the same coefficients and a t_fine of 0
C16_Witness ==
    /\ pc["bmp"] = "dormir"
    /\ tentativas["bmp"] = 1
    /\ contador_erros["bmp"] = 0
    /\ regs.calib = CalibA
    /\ calibracao = DecodificarCalibracao(CalibA)
    /\ t_fine = 0

(***************************************************************************)
(* The construction on arbitrary calibration blocks                        *)
(***************************************************************************)
\* blocks in which one coefficient takes every pair of bytes of Amostra and
\* byte i of the others is i
Blocos ==
    { [i \in 1..24 |-> IF i = 2 * k + 1 THEN lo ELSE IF i = 2 * k + 2 THEN hi ELSE i] :
        k \in 0..11, lo \in Amostra, hi \in Amostra }

InitCalib ==
    /\ SoTarefa("bmp")
    /\ regs \in { [id |-> CHIP_ID, calib |-> c, bruto |-> BrutoA] : c \in Blocos }
    /\ arquivo = Cheio
    /\ PainelParado
    /\ entrada = <<>>
    /\ saida = <<>>

\* the register operations, and BMP280::new
NextCalib ==
    \/ BmpLock
    \/ BmpIniciar
    \/ \E r \in {"ok", "err"}, st \in Estados : BmpConcluir(r, st)
    \/ BmpRetornarNew

SpecCalib == InitCalib /\ [][NextCalib]_vars

\* C17: once the calibration block is read, coefficient k (0..11, in the
\* order T1, T2, T3, P1..P9) is the 16-bit little-endian value of bytes 2k
\* (low) and 2k+1 (high) of the block, T1 and P1 taken as unsigned and the
\* others as two's complement; the constructed instance holds the same.
C17_CalibracaoLittleEndian ==
    LET le(k) == regs.calib[2 * k + 1] + 256 * regs.calib[2 * k + 2]
        s16(v) == ((v + 32768) % 65536) - 32768
        esperado == [dig_t1 |-> le(0), dig_t2 |-> s16(le(1)), dig_t3 |-> s16(le(2)),
                     dig_p1 |-> le(3), dig_p2 |-> s16(le(4)), dig_p3 |-> s16(le(5)),
                     dig_p4 |-> s16(le(6)), dig_p5 |-> s16(le(7)), dig_p6 |-> s16(le(8)),
                     dig_p7 |-> s16(le(9)), dig_p8 |-> s16(le(10)), dig_p9 |-> s16(le(11))]
        faixa(c) == /\ c.dig_t1 \in 0..65535 /\ c.dig_p1 \in 0..65535
                    /\ \A v \in {c.dig_t2, c.dig_t3, c.dig_p2, c.dig_p3, c.dig_p4, c.dig_p5,
                                  c.dig_p6, c.dig_p7, c.dig_p8, c.dig_p9} :
                          v \in (-32768)..32767
    IN /\ pc["bmp"] = "new" /\ passo >= 3 =>
             novo.calibracao = esperado /\ faixa(novo.calibracao)
       /\ sensor["bmp"] = "pronto" =>
             calibracao = esperado /\ faixa(calibracao)

\* the instance was constructed from a block whose bytes 2 and 3 are 0x00
\* and 0x80: T2 is -32768, and T1 and P1 are the unsigned 0x0201 and 0x0807
C17_Witness ==
    /\ sensor["bmp"] = "pronto"
    /\ calibracao.dig_t2 = -32768
    /\ calibracao.dig_t1 = 513
    /\ calibracao.dig_p1 = 2055
    /\ calibracao.dig_p9 = 6167

(***************************************************************************)
(* One task and a Config that is updated from outside                      *)
(***************************************************************************)
\* minutes the interval is set to
Minutos == {1, 10, 30}

\* Config::set_intervalo under the mutex, by a holder of the Arc other than
\* the two tasks (no code of the repository calls it)
SetIntervalo(m) ==
    /\ m # config.intervalo_minutos
    /\ config' = [config EXCEPT !.intervalo_minutos = m]
    /\ UNCHANGED <<mainPc, pc, contador_erros, sensor, bmpVars, dhtVars, obsVars,
                   regs, intervalo, arquivo, entrada, saida, painelVars>>

InitConfig ==
    /\ \E t \in Tasks : SoTarefa(t)
    /\ regs = RegsPadrao
    /\ arquivo = Cheio
    /\ PainelParado
    /\ entrada = <<>>
    /\ saida = <<>>

NextConfig ==
    \/ BmpNext
    \/ DhtNext
    \/ \E m \in Minutos : SetIntervalo(m)

SpecConfig == InitConfig /\ [][NextConfig]_vars

\* C18: in both tasks the Ok arm, the Err arm and the recovery all lead to
\* the read of the Config interval; that read is followed only by the sleep,
\* whose duration is the interval read (minutes x 60000 ms); the duration
\* of a sleep in progress does not change, whatever happens to the Config;
\* and the next iteration starts only when the sleep returns
C18_UmSonoPorCiclo ==
    [][\A t \in Tasks :
        /\ pc[t] \in {"gravar", "erro", "renew"} /\ pc'[t] # pc[t]
              => pc'[t] = "dormir" \/ (pc[t] = "erro" /\ pc'[t] = "renew")
        /\ pc[t] = "dormir" /\ pc'[t] # "dormir"
              => /\ pc'[t] = "dormindo"
                 /\ intervalo'[t] = config.intervalo_minutos * 60000
        /\ pc[t] # "dormindo" /\ pc'[t] = "dormindo" => pc[t] = "dormir"
        /\ pc[t] = "dormindo" /\ pc'[t] = "dormindo" => intervalo'[t] = intervalo[t]
        /\ pc[t] = "dormindo" /\ pc'[t] # "dormindo" => pc'[t] = "ler_dados"
        /\ pc[t] \in Running /\ pc[t] # "ler_dados" /\ pc'[t] = "ler_dados"
              => pc[t] = "dormindo"]_vars

\* the pressure task sleeps 30 minutes after a cycle that triggered the
\* recovery, and the interval has been set to 1 minute since the sleep began
C18_Witness ==
    /\ pc["bmp"] = "dormindo"
    /\ tentativas["bmp"] = 1
    /\ intervalo["bmp"] = 1800000
    /\ config.intervalo_minutos = 1

(***************************************************************************)
(* 64-bit arithmetic of compensar_pressao                                  *)
(* An integer is a sign and a magnitude; a magnitude is the sequence of    *)
(* its digits in base LIMBO, least significant first, without leading      *)
(* zeros (so 0 is the empty sequence).                                     *)
(***************************************************************************)
LIMBO == 32768
\* log2 of LIMBO
BITS_DO_LIMBO == 15

Cauda(a) == IF a = <<>> THEN <<>> ELSE Tail(a)
Cabeca(a) == IF a = <<>> THEN 0 ELSE Head(a)
Desloca(a) == IF a = <<>> THEN <<>> ELSE <<0>> \o a

RECURSIVE NNorm(_)
NNorm(a) ==
    IF a = <<>> THEN <<>>
    ELSE IF a[Len(a)] = 0 THEN NNorm(SubSeq(a, 1, Len(a) - 1)) ELSE a

RECURSIVE NDeInt(_)
NDeInt(n) == IF n = 0 THEN <<>> ELSE <<n % LIMBO>> \o NDeInt(n \div LIMBO)

RECURSIVE NAddC(_, _, _)
NAddC(a, b, c) ==
    IF a = <<>> /\ b = <<>> THEN NDeInt(c)
    ELSE <<(Cabeca(a) + Cabeca(b) + c) % LIMBO>>
            \o NAddC(Cauda(a), Cauda(b), (Cabeca(a) + Cabeca(b) + c) \div LIMBO)
NAdd(a, b) == NAddC(a, b, 0)

\* a - b for a >= b
RECURSIVE NSubB(_, _, _)
NSubB(a, b, e) ==
    IF a = <<>> THEN <<>>
    ELSE <<(Head(a) - Cabeca(b) - e) % LIMBO>>
            \o NSubB(Tail(a), Cauda(b), IF Head(a) - Cabeca(b) - e < 0 THEN 1 ELSE 0)
NSub(a, b) == NNorm(NSubB(a, b, 0))

\* a < b
RECURSIVE NMenor(_, _)
NMenor(a, b) ==
    IF Len(a) # Len(b) THEN Len(a) < Len(b)
    ELSE IF a = <<>> THEN FALSE
    ELSE IF a[Len(a)] # b[Len(b)] THEN a[Len(a)] < b[Len(b)]
    ELSE NMenor(SubSeq(a, 1, Len(a) - 1), SubSeq(b, 1, Len(b) - 1))

\* a * k + c for one digit k (or LIMBO itself)
RECURSIVE NMulS(_, _, _)
NMulS(a, k, c) ==
    IF a = <<>> THEN NDeInt(c)
    ELSE <<(Head(a) * k + c) % LIMBO>> \o NMulS(Tail(a), k, (Head(a) * k + c) \div LIMBO)

RECURSIVE NMul(_, _)
NMul(a, b) ==
    IF a = <<>> \/ b = <<>> THEN <<>>
    ELSE NAdd(NNorm(NMulS(a, Head(b), 0)), Desloca(NMul(a, Tail(b))))

\* a div k for one digit k, given the remainder r of the digits above
RECURSIVE NDivS(_, _, _)
NDivS(a, k, r) ==
    IF a = <<>> THEN <<>>
    ELSE NDivS(SubSeq(a, 1, Len(a) - 1), k, (r * LIMBO + a[Len(a)]) % k)
            \o <<(r * LIMBO + a[Len(a)]) \div k>>

\* a * 2^n
RECURSIVE NShl(_, _)
NShl(a, n) ==
    IF n >= BITS_DO_LIMBO THEN NShl(Desloca(a), n - BITS_DO_LIMBO)
    ELSE NNorm(NMulS(a, 2 ^ n, 0))

\* a div 2^n
RECURSIVE NShr(_, _)
NShr(a, n) ==
    IF n >= BITS_DO_LIMBO THEN NShr(Cauda(a), n - BITS_DO_LIMBO)
    ELSE NNorm(NDivS(a, 2 ^ n, 0))

\* a div b for b > 0, by doubling the divisor
Passo2(d, b) ==
    IF NMenor(d.r, b) THEN [q |-> NAdd(d.q, d.q), r |-> d.r]
    ELSE [q |-> NAddC(d.q, d.q, 1), r |-> NSub(d.r, b)]
RECURSIVE NDivMod(_, _)
NDivMod(a, b) ==
    IF NMenor(a, b) THEN [q |-> <<>>, r |-> a]
    ELSE CHOOSE x \in { Passo2(d, b) : d \in {NDivMod(a, NAdd(b, b))} } : TRUE

\* signed integers
I(neg, m) == [neg |-> neg /\ m # <<>>, m |-> m]
IDeInt(n) == IF n < 0 THEN I(TRUE, NDeInt(-n)) ELSE I(FALSE, NDeInt(n))
INeg(x) == I(~x.neg, x.m)
IAdd(x, y) ==
    IF x.neg = y.neg THEN I(x.neg, NAdd(x.m, y.m))
    ELSE IF NMenor(x.m, y.m) THEN I(y.neg, NSub(y.m, x.m))
    ELSE I(x.neg, NSub(x.m, y.m))
ISub(x, y) == IAdd(x, INeg(y))
IMul(x, y) == I(x.neg # y.neg, NMul(x.m, y.m))
\* floor(x / 2^n): the arithmetic shift of a signed integer
ISar(x, n) ==
    IF ~x.neg THEN I(FALSE, NShr(x.m, n))
    ELSE I(TRUE, NShr(NAdd(x.m, NSub(NShl(<<1>>, n), <<1>>)), n))
\* x / y of signed integers: the quotient truncated towards zero (y # 0)
IDiv(x, y) == I(x.neg # y.neg, NDivMod(x.m, y.m).q)

\* the range of i64, and the value the 64 low bits of x stand for
CabeEmI64(x) ==
    IF x.neg THEN ~NMenor(NShl(<<1>>, 63), x.m) ELSE NMenor(x.m, NShl(<<1>>, 63))
Mod64(m) == NSub(m, NShl(NShr(m, 64), 64))
Wrapping(x) ==
    LET r == IF x.neg /\ Mod64(x.m) # <<>> THEN NSub(NShl(<<1>>, 64), Mod64(x.m))
             ELSE Mod64(x.m)
    IN  IF NMenor(r, NShl(<<1>>, 63)) THEN I(FALSE, r)
        ELSE I(TRUE, NSub(NShl(<<1>>, 64), r))
\* x << n on i64: the bits shifted out are lost in every build
IShl(x, n) == Wrapping(I(x.neg, NShl(x.m, n)))

\* `x as f32`: the nearest value with a 24-bit significand, ties to even
RECURSIVE NBits(_)
NBits(m) == IF m = <<>> THEN 0 ELSE 1 + NBits(NShr(m, 1))
ArredondaPara24(m, k) ==
    LET q == NShr(m, k)
        resto == NSub(m, NShl(q, k))
        meio == NShl(<<1>>, k - 1)
        sobe == NMenor(meio, resto) \/ (resto = meio /\ Cabeca(q) % 2 = 1)
    IN  NShl(IF sobe THEN NAddC(q, <<>>, 1) ELSE q, k)
ComoF32(x) == IF NBits(x.m) <= 24 THEN x ELSE I(x.neg, ArredondaPara24(x.m, NBits(x.m) - 24))

\* the result of `+`, `-` or `*` on i64, and whether it left the range
\* (with overflow checks the operation panics then, without them it wraps)
Estouros(es) == \E e \in es : ~CabeEmI64(e)

\* compensar_pressao up to `if var1 == 0`: the denominator var1, var2, and
\* whether one of the operations overflowed
Denominador(cal, tf) ==
    LET var1 == ISub(IDeInt(tf), IDeInt(128000))
        e1   == IMul(var1, var1)
        e2   == IMul(Wrapping(e1), IDeInt(cal.dig_p6))
        e3   == IMul(var1, IDeInt(cal.dig_p5))
        e4   == IAdd(Wrapping(e2), IShl(Wrapping(e3), 17))
        e5   == IAdd(Wrapping(e4), IShl(IDeInt(cal.dig_p4), 35))
        e7   == IMul(Wrapping(e1), IDeInt(cal.dig_p3))
        e8   == IMul(var1, IDeInt(cal.dig_p2))
        e9   == IAdd(ISar(Wrapping(e7), 8), IShl(Wrapping(e8), 12))
        e10  == IAdd(I(FALSE, NShl(<<1>>, 47)), Wrapping(e9))
        e11  == IMul(Wrapping(e10), IDeInt(cal.dig_p1))
    IN  [ estouro |-> Estouros({e1, e2, e3, e4, e5, e7, e8, e9, e10, e11}),
          var1 |-> ISar(Wrapping(e11), 33),
          var2 |-> Wrapping(e5) ]

\* the rest of compensar_pressao, for the denominator var1 # 0; p: the i64
\* whose conversion to f32 is divided by 256.0
Divisao(cal, adc_p, var1, var2) ==
    LET e13 == ISub(IShl(ISub(IDeInt(1048576), IDeInt(adc_p)), 31), var2)
        e14 == IMul(Wrapping(e13), IDeInt(3125))
        e15 == IDiv(Wrapping(e14), var1)
    IN  [ estouro |-> Estouros({e13, e14}), foraDaFaixa |-> ~CabeEmI64(e15), p |-> e15 ]
Final(cal, p) ==
    LET p13 == ISar(p, 13)
        e16 == IMul(IDeInt(cal.dig_p9), p13)
        e17 == IMul(Wrapping(e16), p13)
        e18 == IMul(IDeInt(cal.dig_p8), p)
        e19 == IAdd(p, ISar(Wrapping(e17), 25))
        e20 == IAdd(Wrapping(e19), ISar(Wrapping(e18), 19))
        e21 == IAdd(ISar(Wrapping(e20), 8), IShl(IDeInt(cal.dig_p7), 4))
    IN  [ estouro |-> Estouros({e16, e17, e18, e19, e20, e21}), p |-> Wrapping(e21) ]

\* BMP280::compensar_pressao(adc_p) of an instance with calibration cal and
\* t_fine tf, in a build with or without overflow checks.  panic: the call
\* panicked; dividiu: the division was evaluated, by var1; pa256: the f32
\* returned, times 256
SemTesteDeZero(var1) == FALSE
RetornaZero(var1) == var1.m = <<>>
Resultado(cal, adc_p, d, checks) ==
    IF checks /\ d.estouro
    THEN [panic |-> TRUE, dividiu |-> FALSE, var1 |-> d.var1, pa256 |-> IDeInt(0)]
    ELSE IF RetornaZero(d.var1)
    THEN [panic |-> FALSE, dividiu |-> FALSE, var1 |-> d.var1, pa256 |-> IDeInt(0)]
    ELSE IF d.var1.m = <<>>
    THEN [panic |-> TRUE, dividiu |-> TRUE, var1 |-> d.var1, pa256 |-> IDeInt(0)]
    ELSE CHOOSE r \in
            { IF q.foraDaFaixa \/ (checks /\ q.estouro)
              THEN [panic |-> TRUE, dividiu |-> TRUE, var1 |-> d.var1, pa256 |-> IDeInt(0)]
              ELSE CHOOSE x \in
                     { [panic |-> checks /\ f.estouro, dividiu |-> TRUE, var1 |-> d.var1,
                        pa256 |-> IF checks /\ f.estouro THEN IDeInt(0) ELSE ComoF32(f.p)] :
                       f \in {Final(cal, q.p)} } : TRUE :
              q \in {Divisao(cal, adc_p, d.var1, d.var2)} } : TRUE
CompensarPressao(cal, tf, adc_p, checks) ==
    CHOOSE r \in { Resultado(cal, adc_p, d, checks) : d \in {Denominador(cal, tf)} } : TRUE

(***************************************************************************)
(* The pressure compensation on its inputs                                 *)
(***************************************************************************)
\* calibrations: the data sheet's example; the same with dig_p1 = 0; one
\* whose var1 is 0 at t_fine = 1176576 although dig_p1 # 0; the largest
\* coefficients, with dig_p1 = 65535 and with dig_p1 = 0
CalDoManual == DecodificarCalibracao(CalibA)
Calibracoes ==
    { CalDoManual,
      DecodificarCalibracao(CalibB),
      [CalDoManual EXCEPT !.dig_p2 = -32768, !.dig_p3 = 0],
      [CalDoManual EXCEPT !.dig_p1 = 65535, !.dig_p2 = 32767, !.dig_p3 = 32767,
                          !.dig_p4 = 32767, !.dig_p5 = 32767, !.dig_p6 = -32768],
      [CalDoManual EXCEPT !.dig_p1 = 0, !.dig_p2 = 32767, !.dig_p3 = 32767,
                          !.dig_p4 = 32767, !.dig_p5 = 32767, !.dig_p6 = -32768] }
\* t_fine: i32
TFines == {-2147483647, 0, 96494, 128000, 128422, 1176576, 2147483647}
\* adc_p: 20 bits
AdcPs == {0, 400000, 415148, 1048575}

InitPressao ==
    /\ Partida
    /\ regs = RegsPadrao
    /\ arquivo = Cheio
    /\ PainelParado
    /\ entrada \in [cal : Calibracoes, t_fine : TFines, adc_p : AdcPs, checks : BOOLEAN]
    /\ saida = <<>>

\* ler_dados from `let pressao_pa = self.compensar_pressao(adc_p)` on: no
\* statement after it can return an Err
BmpCompensarPressao ==
    /\ saida = <<>>
    /\ saida' = CHOOSE x \in
                  { [retorno |-> IF r.panic THEN "panic" ELSE "ok", pressao |-> r] :
                    r \in {CompensarPressao(entrada.cal, entrada.t_fine, entrada.adc_p,
                                            entrada.checks)} } : TRUE
    /\ UNCHANGED <<mainPc, pc, contador_erros, sensor, bmpVars, dhtVars, obsVars,
                   regs, config, intervalo, arquivo, entrada, painelVars>>

SpecPressao == InitPressao /\ [][BmpCompensarPressao]_vars

\* C19: the division by var1 is evaluated only when var1 # 0; whenever
\* var1 is evaluated and is 0 the function returns 0 without dividing and
\* the read returns Ok; with dig_p1 = 0, var1 is 0 if it is evaluated at
\* all (with overflow checks an earlier operation may have panicked)
C19_SemDivisaoPorZero ==
    saida # <<>> =>
        LET r == saida.pressao
            zero == r.var1.m = <<>>
            avaliou == r.dividiu \/ ~r.panic
        IN  /\ r.dividiu => ~zero
            /\ avaliou /\ zero =>
                  /\ ~r.dividiu
                  /\ r.pa256.m = <<>>
                  /\ saida.retorno = "ok"
            /\ avaliou /\ entrada.cal.dig_p1 = 0 => zero
            /\ ~entrada.checks => avaliou

\* var1 came out 0 with dig_p1 # 0, and the read returned Ok with pressure 0
C19_Witness ==
    /\ saida # <<>>
    /\ entrada.cal.dig_p1 # 0
    /\ entrada.t_fine = 1176576
    /\ saida.pressao.var1.m = <<>>
    /\ ~saida.pressao.dividiu
    /\ saida.retorno = "ok"

(***************************************************************************)
(* One task and its log stream                                             *)
(***************************************************************************)
\* what a stream holds when the run begins: nothing (the file is created),
\* a line of an earlier run, or a line and the fragment of a failed write
Antigos(t) == { <<>>, <<Linha(t)>>, <<Linha(t), Fragmento(t)>> }

InitArquivo ==
    /\ \E t \in Tasks : SoTarefa(t)
    /\ regs = RegsPadrao
    /\ arquivo \in { f \in [Tasks -> UNION { Antigos(t) : t \in Tasks }] :
                        \A t \in Tasks : f[t] \in Antigos(t) }
    /\ PainelParado
    /\ entrada = <<>>
    /\ saida = <<>>

NextArquivo == BmpNext \/ DhtNext

SpecArquivo == InitArquivo /\ [][NextArquivo]_vars

\* the lines of a stream: its entries that end with "\n"
Linhas(f) == Cardinality({ i \in 1..Len(f) : f[i].completa })

\* the step in which task t's gravar_* call is made and returns Ok
GravouOk(t) == pc[t] = "gravar" /\ pc'[t] # "gravar" /\ gravacao'[t] = "ok"

\* what every step does to stream t (below MaxLinhas entries): only the
\* gravar_* call of task t, made after a read that returned Ok, changes it;
\* what it held stays as it was; what is added is written by t; a call that
\* returns Ok adds exactly one line, every other step adds no line
PassoDoArquivo(t) ==
    LET antes == arquivo[t]
        depois == arquivo'[t]
    IN  /\ Len(depois) >= Len(antes)
        /\ SubSeq(depois, 1, Len(antes)) = antes
        /\ \A i \in (Len(antes) + 1)..Len(depois) : depois[i].de = t
        /\ depois # antes => pc[t] = "gravar" /\ pc'[t] # "gravar"
        /\ pc[t] = "gravar" /\ pc'[t] # "gravar" => leitura[t] = "ok"
        /\ Len(antes) < MaxLinhas =>
              /\ GravouOk(t) => depois = Append(antes, Linha(t))
              /\ ~GravouOk(t) => Linhas(depois) = Linhas(antes)

\* C20 as amended: each stream is append-only and a cycle adds one line to
\* its task's stream exactly when its read and its write succeed, so the
\* number of lines of a stream is the number it held when the run began
\* plus the number of such cycles
C20_SoAnexa == [][\A t \in Tasks : PassoDoArquivo(t)]_vars

\* after a line of an earlier run and the fragment a failed write left, a
\* cycle of the pressure task has appended its line
C20_Witness ==
    /\ pc["bmp"] = "dormir"
    /\ leitura["bmp"] = "ok"
    /\ gravacao["bmp"] = "ok"
    /\ arquivo["bmp"] = <<Linha("bmp"), Fragmento("bmp"), Linha("bmp")>>

\* C20 as stated: the number of lines of a stream equals the number of its
\* task's cycles with a successful read and a successful write: none before
\* the task's first cycle, and one more with each such cycle
C20_LinhasIgualCiclos ==
    /\ [](\A t \in Tasks : ~ativa[t] => Linhas(arquivo[t]) = 0)
    /\ [][\A t \in Tasks : PassoDoArquivo(t)]_vars

(***************************************************************************)
(* Both tasks, one of the streams with room for one more entry             *)
(***************************************************************************)
\* the streams hold lines of earlier runs; the stream of task t has room
\* for one entry, the other one is beyond what the model keeps
ComEspaco(t) ==
    [x \in Tasks |-> [i \in 1..(IF x = t THEN MaxLinhas - 1 ELSE MaxLinhas) |-> Linha(x)]]

InitDuas ==
    /\ Partida
    /\ regs = RegsPadrao
    /\ arquivo \in { ComEspaco(t) : t \in Tasks }
    /\ PainelParado
    /\ entrada = <<>>
    /\ saida = <<>>

\* the pressure sensor is never measuring when polled; the humidity sensor
\* sends this frame, and every wait but the data pulse is short
QuadroBom == <<45, 0, 23, 5, 73>>
NextDuas ==
    \/ MainNext
    \/ BmpLock
    \/ BmpIniciar
    \/ \E r \in {"ok", "err"} : BmpConcluir(r, 0)
    \/ BmpRetornarNew
    \/ BmpRetornarLer
    \/ \E r \in {"ok", "err"}, parcial \in BOOLEAN : BmpGravar(r, parcial)
    \/ BmpErro
    \/ BmpDormir
    \/ BmpAcordar
    \/ \E ok \in BOOLEAN : DhtNew(ok)
    \/ DhtDesabilitar
    \/ \E ok \in BOOLEAN : DhtPino(ok)
    \/ \E d \in Esperas : DhtResposta(d, QuadroBom)
    \/ \E d3 \in Pulsos : DhtLerBit(TIMEOUT_US, TIMEOUT_US, d3)
    \/ DhtReabilitar
    \/ DhtResultado
    \/ DhtChecksum
    \/ \E r \in {"ok", "err"}, parcial \in BOOLEAN : DhtGravar(r, parcial)
    \/ DhtErro
    \/ DhtDormir
    \/ DhtAcordar

SpecDuas == InitDuas /\ [][NextDuas]_vars

\* a step of task t: its position, its cycle's observation or the state of
\* its driver changes
PassoDe(t) ==
    \/ pc'[t] # pc[t]
    \/ IF t = "bmp" THEN bmpVars' # bmpVars ELSE dhtVars' # dhtVars

\* C21: no step of the humidity task touches the bus lock, a transaction or
\* the pressure driver, and the humidity task always has a next step,
\* whoever holds the lock; no step of a task changes the other task's
\* position, error counter, driver instance or log stream
C21_TarefasIndependentes ==
    /\ [][PassoDe("dht") => UNCHANGED bmpVars]_vars
    /\ [][PassoDe("bmp") => UNCHANGED dhtVars]_vars
    /\ [][\A t \in Tasks :
            PassoDe(t) =>
                /\ pc'[Outra(t)] = pc[Outra(t)]
                /\ contador_erros'[Outra(t)] = contador_erros[Outra(t)]
                /\ sensor'[Outra(t)] = sensor[Outra(t)]
                /\ arquivo'[Outra(t)] = arquivo[Outra(t)]]_vars
    /\ [](pc["dht"] \in Running => ENABLED DhtNext)

\* the humidity task has read and appended its line while the pressure
\* task, after a failed read, holds the bus lock in a transaction
C21_Witness ==
    /\ i2c_lock # "livre"
    /\ em_voo # {}
    /\ contador_erros["bmp"] = 1
    /\ pc["dht"] = "dormir"
    /\ gravacao["dht"] = "ok"
    /\ Len(arquivo["dht"]) = MaxLinhas
    /\ Len(arquivo["bmp"]) = MaxLinhas

(***************************************************************************)
(* The dashboard: the MQTT loop and the page handler share the history     *)
(***************************************************************************)
\* `if history.len() > 10`
HISTORICO_MAX == 10
\* payloads accepted in a run of the model
MaxMensagens == 12

firmwareVars == <<mainPc, pc, contador_erros, sensor, bmpVars, dhtVars, obsVars,
                  regs, config, intervalo, arquivo, entrada, saida>>

\* what eventloop.poll().await brings: a Publish whose payload parses as a
\* SensorData, one whose payload does not, any other event, or an Err
Eventos == {"publish", "publish_invalido", "outro", "erro"}

\* the k-th payload that parses: its fields are told apart by k
RegistroDe(k) == [dados |-> k, horario |-> k]

\* the lock between history.push and the test of history.len(): the guard
\* `history` lives to the end of the block
SoltaAposPush(dono) == "livre"
GuardaAposPush(dono) == dono

\* eventloop.poll().await and the two `if let`
MqttPoll(ev) ==
    /\ pcMqtt = "poll"
    /\ ev = "publish" => Len(aceitas) < MaxMensagens
    /\ CASE ev = "publish" ->
              /\ novo_registro' = {RegistroDe(Len(aceitas) + 1)}
              /\ aceitas' = Append(aceitas, RegistroDe(Len(aceitas) + 1))
              /\ pcMqtt' = "lock"
         [] ev = "erro" ->
              /\ pcMqtt' = "sleep"
              /\ UNCHANGED <<novo_registro, aceitas>>
         [] OTHER ->
              UNCHANGED <<pcMqtt, novo_registro, aceitas>>
    /\ UNCHANGED <<history, trava, pcPagina, visto, firmwareVars>>

\* tokio::time::sleep(1 s) of the Err arm is over
MqttAcordar ==
    /\ pcMqtt = "sleep"
    /\ pcMqtt' = "poll"
    /\ UNCHANGED <<history, trava, novo_registro, pcPagina, visto, aceitas, firmwareVars>>

\* estado_para_mqtt.lock().unwrap()
MqttLock ==
    /\ pcMqtt = "lock"
    /\ trava = "livre"
    /\ trava' = "mqtt"
    /\ pcMqtt' = "push"
    /\ UNCHANGED <<history, novo_registro, pcPagina, visto, aceitas, firmwareVars>>

\* history.push(novo_registro)
MqttPush ==
    /\ pcMqtt = "push"
    /\ history' = history \o <<CHOOSE r \in novo_registro : TRUE>>
    /\ novo_registro' = {}
    /\ trava' = GuardaAposPush(trava)
    /\ pcMqtt' = "limpar"
    /\ UNCHANGED <<pcPagina, visto, aceitas, firmwareVars>>

\* if history.len() > 10 { history.remove(0); } and the end of the block
MqttLimpar ==
    /\ pcMqtt = "limpar"
    /\ history' = IF Len(history) > HISTORICO_MAX THEN Tail(history) ELSE history
    /\ trava' = IF trava = "mqtt" THEN "livre" ELSE trava
    /\ pcMqtt' = "poll"
    /\ UNCHANGED <<novo_registro, pcPagina, visto, aceitas, firmwareVars>>

\* a request for "/" arrives
PaginaPedida ==
    /\ pcPagina = "ocioso"
    /\ pcPagina' = "lock"
    /\ visto' = <<>>
    /\ UNCHANGED <<history, trava, pcMqtt, novo_registro, aceitas, firmwareVars>>

\* state.lock().unwrap()
PaginaLock ==
    /\ pcPagina = "lock"
    /\ trava = "livre"
    /\ trava' = "pagina"
    /\ pcPagina' = "ler"
    /\ UNCHANGED <<history, pcMqtt, novo_registro, visto, aceitas, firmwareVars>>

\* history.last() and the loop over history.iter().rev(); the guard is
\* dropped when the handler returns
PaginaLer ==
    /\ pcPagina = "ler"
    /\ visto' = history
    /\ trava' = IF trava = "pagina" THEN "livre" ELSE trava
    /\ pcPagina' = "ocioso"
    /\ UNCHANGED <<history, pcMqtt, novo_registro, aceitas, firmwareVars>>

InitPainel ==
    /\ Partida
    /\ regs = RegsPadrao
    /\ arquivo = Cheio
    /\ PainelParado
    /\ entrada = <<>>
    /\ saida = <<>>

NextPainel ==
    \/ \E ev \in Eventos : MqttPoll(ev)
    \/ MqttAcordar
    \/ MqttLock
    \/ MqttPush
    \/ MqttLimpar
    \/ PaginaPedida
    \/ PaginaLock
    \/ PaginaLer

SpecPainel == InitPainel /\ [][NextPainel]_vars

\* the last min(Len(s), n) elements of s
Ultimos(s, n) == IF Len(s) <= n THEN s ELSE SubSeq(s, Len(s) - n + 1, Len(s))

\* C22: whenever the MQTT loop is not inside its locked block the history
\* is the last min(n, 10) parsed payloads in arrival order (of those it has
\* finished storing); what the page handler iterates over never has more
\* than 10 records and is such a window of the payloads; and a poll that
\* brings an unparsable payload, another event or an error leaves the
\* history as it was
C22_UltimosDez ==
    /\ [](trava # "mqtt" =>
            /\ Len(history) <= HISTORICO_MAX
            /\ history = Ultimos(SubSeq(aceitas, 1, Len(aceitas) - Cardinality(novo_registro)),
                                 HISTORICO_MAX))
    /\ [](/\ Len(visto) <= HISTORICO_MAX
          /\ \E n \in 0..Len(aceitas) : visto = Ultimos(SubSeq(aceitas, 1, n), HISTORICO_MAX))
    /\ [][pcMqtt = "poll" /\ pcMqtt' \in {"poll", "sleep"} => history' = history]_vars

\* twelve payloads have arrived; the history holds the 3rd to the 12th, and
\* the page handler has shown the 2nd to the 11th
C22_Witness ==
    /\ Len(aceitas) = 12
    /\ pcMqtt = "poll"
    /\ history = [i \in 1..HISTORICO_MAX |-> RegistroDe(i + 2)]
    /\ visto = [i \in 1..HISTORICO_MAX |-> RegistroDe(i + 1)]

(***************************************************************************)
(* The temperature compensation on its inputs, in exact i32 arithmetic     *)
(***************************************************************************)
\* the range of i32, and the value the 32 low bits of x stand for
CabeEmI32(x) ==
    IF x.neg THEN ~NMenor(NShl(<<1>>, 31), x.m) ELSE NMenor(x.m, NShl(<<1>>, 31))
Mod32(m) == NSub(m, NShl(NShr(m, 32), 32))
Wrapping32(x) ==
    LET r == IF x.neg /\ Mod32(x.m) # <<>> THEN NSub(NShl(<<1>>, 32), Mod32(x.m))
             ELSE Mod32(x.m)
    IN  IF NMenor(r, NShl(<<1>>, 31)) THEN I(FALSE, r)
        ELSE I(TRUE, NSub(NShl(<<1>>, 32), r))

\* compensar_temperatura(adc_t) with calibration cal.  estouro: one of the
\* differences, products and sums left the range of i32 (the call panics
\* then in a build with overflow checks, and goes on with the low 32 bits
\* in one without); t_fine and t: what it stores and the hundredths of a
\* degree it returns when it does not panic
TemperaturaI32(cal, adc_t) ==
    LET t1  == IDeInt(cal.dig_t1)
        d1  == ISub(ISar(IDeInt(adc_t), 3), Wrapping32(I(FALSE, NShl(t1.m, 1))))
        e1  == IMul(Wrapping32(d1), IDeInt(cal.dig_t2))
        v1  == ISar(Wrapping32(e1), 11)
        d2  == ISub(ISar(IDeInt(adc_t), 4), t1)
        e2  == IMul(Wrapping32(d2), Wrapping32(d2))
        e3  == IMul(ISar(Wrapping32(e2), 12), IDeInt(cal.dig_t3))
        v2  == ISar(Wrapping32(e3), 14)
        e4  == IAdd(v1, v2)
        e5  == IMul(Wrapping32(e4), IDeInt(5))
        e6  == IAdd(Wrapping32(e5), IDeInt(128))
    IN  [ estouro |-> \E e \in {d1, e1, d2, e2, e3, e4, e5, e6} : ~CabeEmI32(e),
          t_fine |-> Wrapping32(e4),
          t |-> ISar(Wrapping32(e6), 8) ]

\* raw temperatures of 20 bits and calibration triples: the ends of the
\* ranges, values next to them, and the data sheet's example
AdcTs == {0, 1, 415000, 519888, 524288, 1048575}
DigT1s == {0, 27504, 65535}
DigT2s == {-32768, -1, 0, 26435, 32767}
DigT3s == {-32768, -1000, 0, 32767}

InitTemperatura ==
    /\ Partida
    /\ regs = RegsPadrao
    /\ arquivo = Cheio
    /\ PainelParado
    /\ entrada \in [dig_t1 : DigT1s, dig_t2 : DigT2s, dig_t3 : DigT3s, adc_t : AdcTs,
                    checks : BOOLEAN]
    /\ saida = <<>>

\* ler_dados: `let temperatura = self.compensar_temperatura(adc_t);`
BmpCompensarTemperatura ==
    /\ saida = <<>>
    /\ saida' = CHOOSE x \in
                  { [panic |-> entrada.checks /\ r.estouro, estouro |-> r.estouro,
                     t_fine |-> r.t_fine, t |-> r.t] :
                    r \in {TemperaturaI32(entrada, entrada.adc_t)} } : TRUE
    /\ UNCHANGED <<mainPc, pc, contador_erros, sensor, bmpVars, dhtVars, obsVars,
                   regs, config, intervalo, arquivo, entrada, painelVars>>

SpecTemperatura == InitTemperatura /\ [][BmpCompensarTemperatura]_vars

\* C23: for every 20-bit adc_t and every calibration triple, all the
\* intermediate values of the temperature compensation fit in an i32
C23_SemEstouroNaTemperatura == saida # <<>> => ~saida.estouro

====
